---- MODULE Spec2Model ----
(***************************************************************************)
(* ResultValidator.validate_results (src/models/ai/validator.py) as a      *)
(* state machine: one request runs the four stages of the validator        *)
(*   basic fields -> source selection -> deadline priority -> consistency  *)
(* over a rule-based record and an optional AI record, while the wall      *)
(* clock (datetime.now()) may pass midnight between two stages.            *)
(*                                                                         *)
(* Strings of the program that are not ASCII are written by an ASCII name: *)
(*   priorities  High = 高, Medium = 中, Low = 低; the aliases of the       *)
(*               priority mapping Urgent = 緊急, Normal = 通常,            *)
(*               Lowish = 低め; Highest = 最高 (an out-of-vocabulary label  *)
(*               the tests use)                                            *)
(*   categories  Math = 数学, Statistics = 統計学, ... in the order of      *)
(*               Task.CATEGORY_KEYWORDS; Programming = プログラミング is    *)
(*               not a category of the vocabulary                          *)
(*   levels      Overdue = 期限切れ, DueToday = 今日まで,                    *)
(*               DueTomorrow = 明日まで, Urgent = 緊急, Caution = 要注意,    *)
(*               Attention = 注意, Relaxed = 余裕あり                       *)
(* Confidences are in hundredths (0.3 is 30).                              *)
(***************************************************************************)
EXTENDS Integers, Sequences, FiniteSets, TLC

(* ------------------------------------------------------------------ *)
(* Bounds of the model                                                 *)
(* ------------------------------------------------------------------ *)

\* Due dates offered to the validator reach this many days before the base day.
MaxPast == 2

\* Due dates offered to the validator reach this many days after the base day.
MaxAhead == 16

\* The clock passes midnight at most this many times.
MaxTicks == 1

(* ------------------------------------------------------------------ *)
(* Task constants (src/models/task.py)                                 *)
(* ------------------------------------------------------------------ *)

\* Python's None, and the value of dict.get for a missing key.
None == "<None>"

PRIORITY_HIGH == "High"
PRIORITY_MEDIUM == "Medium"
PRIORITY_LOW == "Low"

\* Task.CONFIDENCE["THRESHOLD"], in hundredths.
THRESHOLD == 30

\* Task.CONFIDENCE["BASE"], ["INCREMENT"] and ["MAX"], in hundredths.
BASE == 50
INCREMENT == 10
MAX == 100

\* Task.PRIORITY_KEYWORDS in dictionary order; of each list the keywords the
\* model's titles can hold: juuyou = 重要, shikyuu = 至急, kinkyuu = 緊急;
\* kakunin = 確認, junbi = 準備; atode = 後で, yoyuu = 余裕.
PRIORITY_KEYWORDS ==
    << [level |-> PRIORITY_HIGH,   keywords |-> {"juuyou", "shikyuu", "kinkyuu"}],
       [level |-> PRIORITY_MEDIUM, keywords |-> {"kakunin", "junbi"}],
       [level |-> PRIORITY_LOW,    keywords |-> {"atode", "yoyuu"}] >>

\* Task.CATEGORY_KEYWORDS in dictionary order; of each list the keywords the
\* model's titles can hold: keisan = 計算, toukei = 統計, data_bunseki = データ分析
\* (a keyword of two categories), kadai = 課題, houkoku = 報告.
CATEGORY_KEYWORDS ==
    << [category |-> "Math",            keywords |-> {"keisan", "shoumei"}],
       [category |-> "Statistics",      keywords |-> {"toukei", "data_bunseki"}],
       [category |-> "MachineLearning", keywords |-> {"gakushuu", "yosoku"}],
       [category |-> "DataScience",     keywords |-> {"data_bunseki", "kashika"}],
       [category |-> "Development",     keywords |-> {"jissou", "debug"}],
       [category |-> "Infrastructure",  keywords |-> {"cloud", "docker"}],
       [category |-> "Research",        keywords |-> {"kenkyuu", "ronbun"}],
       [category |-> "Intern",          keywords |-> {"gyoumu", "houkoku"}],
       [category |-> "Career",          keywords |-> {"shuukatsu", "mensetsu"}],
       [category |-> "Submission",      keywords |-> {"kadai", "report"}],
       [category |-> "Meeting",         keywords |-> {"uchiawase", "happyou"}] >>

VALID_CATEGORIES == {CATEGORY_KEYWORDS[i].category : i \in DOMAIN CATEGORY_KEYWORDS}

\* Task.URGENCY_LEVELS in dictionary order. The last level's bound is
\* float('inf'): every number of days is <= it.
URGENCY_LEVELS ==
    << [level |-> "Overdue",     inf |-> FALSE, days |-> -1, priority |-> PRIORITY_HIGH],
       [level |-> "DueToday",    inf |-> FALSE, days |-> 0,  priority |-> PRIORITY_HIGH],
       [level |-> "DueTomorrow", inf |-> FALSE, days |-> 1,  priority |-> PRIORITY_HIGH],
       [level |-> "Urgent",      inf |-> FALSE, days |-> 3,  priority |-> PRIORITY_HIGH],
       [level |-> "Caution",     inf |-> FALSE, days |-> 7,  priority |-> PRIORITY_HIGH],
       [level |-> "Attention",   inf |-> FALSE, days |-> 14, priority |-> PRIORITY_MEDIUM],
       [level |-> "Relaxed",     inf |-> TRUE,  days |-> 0,  priority |-> PRIORITY_LOW] >>

(* ------------------------------------------------------------------ *)
(* Strings, dates and the calendar                                     *)
(* ------------------------------------------------------------------ *)

\* bool(s) of a str-or-None value: None and "" are false.
Truthy(s) == s # None /\ s # ""

\* A title is missing from the record, None, or a string: a sequence of words
\* (the empty sequence is ""). "keyword in title" finds a word of the title.
TitleAbsent == [tag |-> "absent", words |-> <<>>]
TitleNone == [tag |-> "none", words |-> <<>>]
TitleStr(ws) == [tag |-> "str", words |-> ws]
PlaceholderTitle == TitleStr(<<"mudai_no_task">>)

TitleTruthy(t) == t.tag = "str" /\ t.words # <<>>

KeywordIn(keyword, t) == \E i \in DOMAIN t.words : t.words[i] = keyword

\* A due-date value is None or a string, kept by its shape and numbers:
\*   padded    2026-12-02       unpadded  2026-12-2
\*   slash     2026/12/02       text      a string with no date in it
NoDate == [shape |-> "none", y |-> 0, m |-> 0, d |-> 0]
DateStr(shape, y, m, d) == [shape |-> shape, y |-> y, m |-> m, d |-> d]

DateTruthy(s) == s.shape # "none"

IsLeap(y) == (y % 4 = 0 /\ y % 100 # 0) \/ y % 400 = 0

DaysInMonth(y, m) ==
    IF m = 2 THEN (IF IsLeap(y) THEN 29 ELSE 28)
    ELSE IF m \in {4, 6, 9, 11} THEN 30 ELSE 31

\* date.toordinal up to a constant: the number of the day in the proleptic
\* Gregorian calendar.
Ordinal(y, m, d) ==
    LET yy == IF m <= 2 THEN y - 1 ELSE y
        era == yy \div 400
        yoe == yy - era * 400
        mp == IF m > 2 THEN m - 3 ELSE m + 9
        doy == (153 * mp + 2) \div 5 + d - 1
        doe == yoe * 365 + yoe \div 4 - yoe \div 100 + doy
    IN era * 146097 + doe

\* datetime.strptime(s, "%Y-%m-%d"): the three numbers separated by hyphens,
\* with or without leading zeros, that name a day of the calendar; anything
\* else is a ValueError.
Strptime(s) ==
    IF /\ s.shape \in {"padded", "unpadded"}
       /\ s.y \in 1..9999
       /\ s.m \in 1..12
       /\ s.d \in 1..DaysInMonth(s.y, s.m)
    THEN [ok |-> TRUE, ordinal |-> Ordinal(s.y, s.m, s.d)]
    ELSE [ok |-> FALSE, ordinal |-> 0]

\* date.strftime("%Y-%m-%d"): the padded form of a date.
Strftime(t) == DateStr("padded", t.y, t.m, t.d)

(* ------------------------------------------------------------------ *)
(* Warnings                                                            *)
(* ------------------------------------------------------------------ *)

\* A warning string, kept by its template (kind) and the values formatted
\* into it: the level name, the number of days, the two priorities.
Warning(kind, level, days, from, to) ==
    [kind |-> kind, level |-> level, days |-> days, from |-> from, to |-> to]

\* "期限切れ（N日経過）のため、優先度を「from」から「to」に変更しました"
OverdueChangeWarning(n, from, to) == Warning("overdue_change", "", n, from, to)
\* "{level}（残りN日）のため、優先度を「from」から「to」に調整しました"
AdjustWarning(level, n, from, to) == Warning("adjust", level, n, from, to)
\* "期限の形式が正しくありません"
BadFormatWarning == Warning("bad_format", "", 0, "", "")
\* "タイトルが設定されていません"
NoTitleWarning == Warning("no_title", "", 0, "", "")
\* "このタスクは期限切れです（N日経過）"
OverdueWarning(n) == Warning("overdue", "", n, "", "")
\* "期限が近づいています（残りN日）"
NearWarning(n) == Warning("near", "", n, "", "")
\* "{level}（残りN日）ですが、優先度が「to」になっていません"
MismatchWarning(level, n, to) == Warning("mismatch", level, n, "", to)
\* "期限が設定されていません"
NoDueDateWarning == Warning("no_due_date", "", 0, "", "")
\* "カテゴリが設定されていません"
NoCategoryWarning == Warning("no_category", "", 0, "", "")

Abs(n) == IF n < 0 THEN -n ELSE n

(* ------------------------------------------------------------------ *)
(* Stage 1: ResultValidator._validate_basic_fields                     *)
(* ------------------------------------------------------------------ *)

\* The least member of a non-empty set of indices: the first hit of a loop
\* that breaks at its first match.
FirstIndex(S) == CHOOSE i \in S : \A j \in S : i <= j

\* Lines 101-106: the rule-based title, or the placeholder when it is
\* missing, None or "".
BasicTitle(rule) ==
    IF TitleTruthy(rule.title) THEN rule.title ELSE PlaceholderTitle

\* The ValueError of strptime not caught: it leaves validate_results.
ValidateDueDate_Uncaught(due) ==
    IF DateTruthy(due)
    THEN IF Strptime(due).ok
         THEN [value |-> due, raised |-> FALSE]
         ELSE [value |-> NoDate, raised |-> TRUE]
    ELSE [value |-> NoDate, raised |-> FALSE]

\* Lines 108-117: the rule-based due date when strptime accepts it. The
\* ValueError of a string strptime rejects is caught (and only logged).
ValidateDueDate(due) ==
    IF DateTruthy(due)
    THEN IF Strptime(due).ok
         THEN [value |-> due, raised |-> FALSE]
         ELSE [value |-> NoDate, raised |-> FALSE]
    ELSE [value |-> NoDate, raised |-> FALSE]

\* Lines 128-139, priority_mapping.get(p, Task.PRIORITY_MEDIUM).
PriorityMapping(p) ==
    CASE p \in {"High", "Urgent"} -> PRIORITY_HIGH
      [] p \in {"Medium", "Normal"} -> PRIORITY_MEDIUM
      [] p \in {"Low", "Lowish"} -> PRIORITY_LOW
      [] OTHER -> PRIORITY_MEDIUM

\* Lines 141-148: the first priority level, in dictionary order, one of
\* whose keywords is in the title replaces the priority p.
TitlePriority(t, p) ==
    LET hits == {i \in DOMAIN PRIORITY_KEYWORDS :
                    \E k \in PRIORITY_KEYWORDS[i].keywords : KeywordIn(k, t)}
    IN IF hits = {} THEN p ELSE PRIORITY_KEYWORDS[FirstIndex(hits)].level

VALID_PRIORITIES == {PRIORITY_HIGH, PRIORITY_MEDIUM, PRIORITY_LOW}

\* Lines 119-169.
BasicPriority(rule, ai) ==
    LET p0 == TitlePriority(BasicTitle(rule), rule.priority)
        p1 == IF Truthy(p0) THEN PriorityMapping(p0)
              ELSE IF ai.present /\ Truthy(ai.priority)
                   THEN PriorityMapping(ai.priority)
                   ELSE PRIORITY_MEDIUM
    IN IF p1 \in VALID_PRIORITIES THEN p1 ELSE PRIORITY_MEDIUM

\* Lines 185-190: the first category, in dictionary order, one of whose
\* keywords is in the title; None when there is none.
TitleCategory(t) ==
    LET hits == {i \in DOMAIN CATEGORY_KEYWORDS :
                    \E k \in CATEGORY_KEYWORDS[i].keywords : KeywordIn(k, t)}
    IN IF hits = {} THEN None ELSE CATEGORY_KEYWORDS[FirstIndex(hits)].category

\* Lines 171-198: an if / elif / elif chain, so that the AI category is
\* looked at only when the rule-based record has no title.
BasicCategory(rule, ai) ==
    IF rule.category \in VALID_CATEGORIES THEN rule.category
    ELSE IF TitleTruthy(rule.title) THEN TitleCategory(rule.title)
    ELSE IF ai.present /\ ai.category \in VALID_CATEGORIES THEN ai.category
    ELSE None

\* Lines 79-200: the dict the stage returns, and whether it raised.
ValidateBasicFields(rule, ai) ==
    LET due == ValidateDueDate(rule.due_date)
    IN [raised |-> due.raised,
        result |-> [title |-> BasicTitle(rule),
                    due_date |-> due.value,
                    priority |-> BasicPriority(rule, ai),
                    category |-> BasicCategory(rule, ai)]]

(* ------------------------------------------------------------------ *)
(* Stage 2: ResultValidator._select_high_confidence_results            *)
(* ------------------------------------------------------------------ *)

\* Line 218: rule_based.get("title", validated["title"]): the default is
\* used only when the key is missing.
SelectTitle(validated, rule) ==
    IF rule.title.tag = "absent" THEN validated.title ELSE rule.title

\* Line 222.
AiConfidence(ai) == IF ai.present THEN ai.confidence ELSE 0

\* Lines 225-233, for one field.
SelectField(current, rule_value, rule_field_confidence, ai_value, ai_confidence) ==
    IF rule_field_confidence > ai_confidence /\ Truthy(rule_value)
    THEN rule_value
    ELSE IF Truthy(ai_value) /\ ai_confidence > THRESHOLD
         THEN ai_value
         ELSE current

\* Lines 203-235. The loop runs over category and priority; the due date
\* is not touched.
SelectHighConfidenceResults(validated, rule, ai) ==
    [title |-> SelectTitle(validated, rule),
     due_date |-> validated.due_date,
     priority |-> SelectField(validated.priority, rule.priority,
                              rule.confidence.priority,
                              IF ai.present THEN ai.priority ELSE None,
                              AiConfidence(ai)),
     category |-> SelectField(validated.category, rule.category,
                              rule.confidence.category,
                              IF ai.present THEN ai.category ELSE None,
                              AiConfidence(ai))]

(* ------------------------------------------------------------------ *)
(* Stage 3: ResultValidator._validate_deadline_priority                *)
(* ------------------------------------------------------------------ *)

\* The comparison made strict: a due date exactly on a level's bound falls
\* into the next level.
Within_Strict(days, info) == info.inf \/ days < info.days

\* days_until <= info["days"].
Within(days, info) == info.inf \/ days <= info.days

\* The index of the first urgency level, in dictionary order, that the
\* number of days is within; 0 when there is none.
UrgencyIndex(days) ==
    LET hits == {i \in DOMAIN URGENCY_LEVELS : Within(days, URGENCY_LEVELS[i])}
    IN IF hits = {} THEN 0 ELSE FirstIndex(hits)

\* The overdue branch warning without changing the priority.
OverdueResult_KeepsPriority(days, current_priority) ==
    [priority |-> current_priority,
     warnings |-> <<OverdueChangeWarning(Abs(days), current_priority, PRIORITY_HIGH)>>]

\* Lines 255-263: an overdue date returns at once, with a warning, whatever
\* the current priority is.
OverdueResult(days, current_priority) ==
    [priority |-> PRIORITY_HIGH,
     warnings |-> <<OverdueChangeWarning(Abs(days), current_priority, PRIORITY_HIGH)>>]

\* The adjustment warning without comparing the suggested priority with
\* the current one.
UrgencyResult_AlwaysWarns(days, current_priority) ==
    LET i == UrgencyIndex(days)
    IN IF i # 0
       THEN [priority |-> URGENCY_LEVELS[i].priority,
             warnings |-> <<AdjustWarning(URGENCY_LEVELS[i].level, days,
                                          current_priority,
                                          URGENCY_LEVELS[i].priority)>>]
       ELSE [priority |-> current_priority, warnings |-> <<>>]

\* The adjustment never lowering a priority that is already High.
UrgencyResult_NeverLowers(days, current_priority) ==
    LET i == UrgencyIndex(days)
    IN IF /\ i # 0
          /\ URGENCY_LEVELS[i].priority # current_priority
          /\ current_priority # PRIORITY_HIGH
       THEN [priority |-> URGENCY_LEVELS[i].priority,
             warnings |-> <<AdjustWarning(URGENCY_LEVELS[i].level, days,
                                          current_priority,
                                          URGENCY_LEVELS[i].priority)>>]
       ELSE [priority |-> current_priority, warnings |-> <<>>]

\* Lines 265-282: the first level the days are within suggests a priority;
\* a warning is made only when it differs from the current one.
UrgencyResult(days, current_priority) ==
    LET i == UrgencyIndex(days)
    IN IF i # 0 /\ URGENCY_LEVELS[i].priority # current_priority
       THEN [priority |-> URGENCY_LEVELS[i].priority,
             warnings |-> <<AdjustWarning(URGENCY_LEVELS[i].level, days,
                                          current_priority,
                                          URGENCY_LEVELS[i].priority)>>]
       ELSE [priority |-> current_priority, warnings |-> <<>>]

\* Lines 237-288, with now the ordinal of datetime.now().date(). Beside the
\* dict it returns, the value of its local days_until is kept.
ValidateDeadlinePriority(due_date, current_priority, now) ==
    LET deadline == Strptime(due_date)
        days == deadline.ordinal - now
        r == IF ~deadline.ok
             THEN [priority |-> current_priority,
                   warnings |-> <<BadFormatWarning>>]
             ELSE IF days < 0
                  THEN OverdueResult(days, current_priority)
                  ELSE UrgencyResult(days, current_priority)
    IN [priority |-> r.priority, warnings |-> r.warnings,
        parsed |-> deadline.ok, days |-> IF deadline.ok THEN days ELSE 0]

(* ------------------------------------------------------------------ *)
(* Stage 4: ResultValidator._check_consistency                         *)
(* ------------------------------------------------------------------ *)

\* Lines 301-303.
TitleWarnings(data) ==
    IF TitleTruthy(data.title) THEN <<>> ELSE <<NoTitleWarning>>

\* Lines 311-321.
ProximityWarnings(days) ==
    IF days < 0 THEN <<OverdueWarning(Abs(days))>>
    ELSE IF days <= 3 THEN <<NearWarning(days)>>
    ELSE <<>>

\* Lines 323-331.
MismatchWarnings(days, priority) ==
    LET i == UrgencyIndex(days)
    IN IF i # 0 /\ priority # URGENCY_LEVELS[i].priority
       THEN <<MismatchWarning(URGENCY_LEVELS[i].level, days,
                              URGENCY_LEVELS[i].priority)>>
       ELSE <<>>

\* Lines 305-336.
DueDateWarnings(data, now) ==
    IF DateTruthy(data.due_date)
    THEN LET deadline == Strptime(data.due_date)
             days == deadline.ordinal - now
         IN IF deadline.ok
            THEN ProximityWarnings(days) \o MismatchWarnings(days, data.priority)
            ELSE <<BadFormatWarning>>
    ELSE <<NoDueDateWarning>>

\* A check that reports a missing category whatever the category is.
CategoryWarnings_Always(data) == <<NoCategoryWarning>>

\* Lines 338-340.
CategoryWarnings(data) ==
    IF Truthy(data.category) THEN <<>> ELSE <<NoCategoryWarning>>

\* Lines 290-342.
CheckConsistency(data, now) ==
    TitleWarnings(data) \o DueDateWarnings(data, now) \o CategoryWarnings(data)

(* ------------------------------------------------------------------ *)
(* Requests                                                            *)
(* ------------------------------------------------------------------ *)

\* The day the model starts on: 2026-11-25, so that the due dates offered
\* cross the end of a month.
Today0 == Ordinal(2026, 11, 25)

\* The date of an ordinal: (datetime.now() + timedelta(days=k)).date().
DateOf(n) ==
    LET era == n \div 146097
        doe == n - era * 146097
        yoe == (doe - doe \div 1460 + doe \div 36524 - doe \div 146096) \div 365
        doy == doe - (365 * yoe + yoe \div 4 - yoe \div 100)
        mp == (5 * doy + 2) \div 153
        d == doy - (153 * mp + 2) \div 5 + 1
        m == IF mp < 10 THEN mp + 3 ELSE mp - 9
        y == yoe + era * 400 + (IF m <= 2 THEN 1 ELSE 0)
    IN [y |-> y, m |-> m, d |-> d]

\* The YYYY-MM-DD string of the day k days after the base day.
DayString(k) == Strftime(DateOf(Today0 + k))

\* Strings no date can be read from, or that strptime rejects: a day and a
\* month that do not exist, another separator, plain text.
MalformedDates ==
    { DateStr("padded", 2026, 11, 31), DateStr("padded", 2026, 13, 1),
      DateStr("slash", 2026, 12, 2), DateStr("text", 0, 0, 0) }

\* The due dates a record may carry: none, every day from MaxPast days ago
\* to MaxAhead days ahead, a day long past, a date without leading zeros,
\* and the malformed ones.
DueDateInputs ==
    {NoDate} \cup {DayString(k) : k \in (-MaxPast)..MaxAhead}
             \cup {DateStr("padded", 2000, 1, 1), DateStr("unpadded", 2026, 12, 2)}
             \cup MalformedDates

TitleInputs ==
    { TitleAbsent, TitleNone, TitleStr(<<>>), TitleStr(<<"tesuto">>),
      TitleStr(<<"shikyuu", "tesuto">>), TitleStr(<<"atode", "kakunin">>),
      TitleStr(<<"data_bunseki">>) }

RuleRecord(t, d, p, c, cp, cc) ==
    [title |-> t, due_date |-> d, priority |-> p, category |-> c,
     confidence |-> [priority |-> cp, category |-> cc]]

\* ai_result is None or {}: "if ai_result" is false.
NoAi ==
    [present |-> FALSE, priority |-> None, category |-> None,
     deadline |-> NoDate, confidence |-> 0]

AiRecord(p, c, d, conf) ==
    [present |-> TRUE, priority |-> p, category |-> c, deadline |-> d,
     confidence |-> conf]

\* Requests that vary the due date and the reported priority.
DeadlineRequests ==
    { [rule |-> RuleRecord(t, d, p, c, cp, 0), ai |-> a] :
        t \in {TitleStr(<<"tesuto">>), TitleStr(<<"shikyuu", "tesuto">>)},
        d \in DueDateInputs,
        p \in {None, "High", "Medium", "Low", "Urgent", "Highest"},
        c \in {None, "Math"},
        cp \in {0, 60},
        a \in {NoAi, AiRecord("Low", None, NoDate, 90),
               AiRecord("Highest", "Programming", DayString(3), 31)} }

\* Requests that vary the two sources and their confidences.
SelectionRequests ==
    { [rule |-> RuleRecord(t, d, p, c, cp, cc), ai |-> a] :
        t \in TitleInputs,
        d \in {NoDate, DateStr("text", 0, 0, 0), DayString(3)},
        p \in {None, "Low", "Urgent", "Highest"},
        c \in {None, "Math", "Programming"},
        cp \in {0, 31, 60},
        cc \in {0, 60},
        a \in {NoAi} \cup
              { AiRecord(ap, ac, NoDate, conf) :
                  ap \in {None, "High", "Highest"},
                  ac \in {None, "Development", "Programming"},
                  conf \in {THRESHOLD, THRESHOLD + 1, 90} } }

\* Requests that vary where a due date can come from.
DueDateRequests ==
    { [rule |-> RuleRecord(t, d, "Low", None, 0, 0), ai |-> a] :
        t \in {TitleAbsent, TitleStr(<<"tesuto">>)},
        d \in DueDateInputs,
        a \in {NoAi} \cup
              { AiRecord(None, None, ad, conf) :
                  ad \in {NoDate, DayString(3), DateStr("text", 0, 0, 0)},
                  conf \in {0, 90} } }

Requests == DeadlineRequests \cup SelectionRequests \cup DueDateRequests

(* ------------------------------------------------------------------ *)
(* The state machine                                                   *)
(* ------------------------------------------------------------------ *)

VARIABLES
    pc,                 \* where validate_results is: idle, basic, select,
                        \* deadline, consistency, done, raised
    rule_based,         \* the rule_based argument
    ai_result,          \* the ai_result argument
    validated,          \* the dict validated (at done: the dict returned)
    deadline_warnings,  \* the list deadline_warnings
    days_until,         \* the local days_until of _validate_deadline_priority
    today,              \* the ordinal of datetime.now().date()
    called_on           \* the day the request in progress was made on

\* What the callers of one validator ask of it, and one earlier call and its
\* result, kept by an observer to compare a later call with.
VARIABLES
    workload,           \* "all": any request; "repeat": the requests of RepeatPool
    remembered          \* an earlier request, its day and the dict it returned

\* TextParser (src/utils/text_parser.py).
VARIABLES
    ai_inference,       \* self.ai_inference is not None
    parse_pc,           \* where parse_task_info is: idle, rule, ai, integrate,
                        \* returned, raised
    text,               \* the text argument
    cleaned_text,       \* the local cleaned_text
    rule_based_result,  \* the local rule_based_result
    parser_ai_result,   \* the local ai_result
    parse_result        \* what the call returned or raised

\* EnsembleModel and AIInference (src/models/ai/ensemble.py, inference.py).
VARIABLES
    weights,            \* self.weights, in dictionary order
    models,             \* the keys of self.models: the providers loaded
    model_status,       \* self.model_status
    loadable,           \* the providers whose constructor succeeds right now
    load_failed,        \* the providers whose load has failed at least once
    retried,            \* the providers constructed again after a failed load
    last_call,          \* the last get_similarity call: what it tried and returned
    estimate            \* what the last estimate_* call returned or raised

\* The threads that use one EnsembleModel at the same time.
VARIABLES
    callers,            \* per thread in get_similarity: where it is and its locals
    cleaner,            \* the thread in cleanup: where it is and its iterator
    constructed         \* how many times each provider's constructor has succeeded

\* A Task (src/models/task.py) and the last call of one of its setters.
VARIABLES
    task,               \* the fields _title, _due_date, _priority, _categories, _status
    setter_call         \* the setter last called, its argument, whether it raised

validatorVars == <<pc, rule_based, ai_result, validated, deadline_warnings,
                   days_until, today, called_on>>
repeatVars == <<workload, remembered>>
parserVars == <<ai_inference, parse_pc, text, cleaned_text, rule_based_result,
                parser_ai_result, parse_result>>
ensembleVars == <<weights, models, model_status, loadable, load_failed, retried,
                  last_call, estimate>>

threadVars == <<callers, cleaner, constructed>>
taskVars == <<task, setter_call>>

vars == <<validatorVars, repeatVars, parserVars, ensembleVars, threadVars, taskVars>>

NoRule == RuleRecord(TitleAbsent, NoDate, None, None, 0, 0)
EmptyDict == [k \in {} |-> None]
NoDays == [known |-> FALSE, n |-> 0]

\* No call has been remembered.
NothingRemembered ==
    [known |-> FALSE, rule |-> NoRule, ai |-> NoAi, day |-> 0, result |-> EmptyDict,
     returned |-> FALSE, other |-> FALSE]

\* What the observer notes when a call returns: that the remembered call has
\* returned, and then that a call with another request has been served.
Observed(rule, ai) ==
    IF ~remembered.known THEN remembered
    ELSE IF ~remembered.returned THEN [remembered EXCEPT !.returned = TRUE]
    ELSE IF rule # remembered.rule \/ ai # remembered.ai
         THEN [remembered EXCEPT !.other = TRUE]
         ELSE remembered

\* The requests of a workload in which calls are repeated: those that vary
\* where the due date comes from, and those that vary the reported priority
\* of a dated task.
RepeatPool ==
    DueDateRequests \cup
    { req \in DeadlineRequests :
        req.ai = NoAi /\ req.rule.category = None /\ req.rule.confidence.priority = 0 }

Offered == IF workload = "all" THEN Requests ELSE RepeatPool

\* A call that has not returned, of the parser or of the ensemble.
Pending == [kind |-> "pending"]

\* The three embedding providers (EnsembleModel.__init__, line 30).
Providers == {"laser", "word2vec", "fasttext"}

\* Task.CONFIDENCE["MODEL_WEIGHTS"] with lower-case keys, in dictionary
\* order, in hundredths.
DefaultWeights ==
    << [name |-> "laser", weight |-> 50], [name |-> "word2vec", weight |-> 30],
       [name |-> "fasttext", weight |-> 20] >>

\* The parser between two calls, constructed without model paths.
ParserIdle ==
    /\ ai_inference = FALSE
    /\ parse_pc = "idle"
    /\ text = TitleStr(<<>>)
    /\ cleaned_text = TitleNone
    /\ rule_based_result = Pending
    /\ parser_ai_result = Pending
    /\ parse_result = Pending

\* The ensemble as constructed with the default weights: nothing is loaded.
EnsembleIdle ==
    /\ weights = DefaultWeights
    /\ models = {}
    /\ model_status = [m \in Providers |-> FALSE]
    /\ loadable = {}
    /\ load_failed = {}
    /\ retried = {}
    /\ last_call = Pending
    /\ estimate = Pending

\* The threads that call get_similarity at the same time.
Callers == {"t1", "t2"}

\* The locals of a get_similarity call: the position in self.weights, the
\* sum of similarities, total_weight, the providers that scored, the value
\* returned.
CallerIdle ==
    [pc |-> "idle", i |-> 0, sum |-> 0, total_weight |-> 0, scored |-> {},
     result |-> [num |-> 0, den |-> 1]]

\* The thread in cleanup: what its iterator over self.models.values() saw
\* as the size of the dict and has yet to yield.
CleanerIdle == [pc |-> "idle", used |-> 0, left |-> {}]

\* No thread is in the ensemble.
ThreadsIdle ==
    /\ callers = [t \in Callers |-> CallerIdle]
    /\ cleaner = CleanerIdle
    /\ constructed = [m \in Providers |-> 0]

\* No Task has been constructed.
NoTask == [kind |-> "absent"]

TaskIdle ==
    /\ task = NoTask
    /\ setter_call = Pending

ValidatorIdle ==
    /\ pc = "idle"
    /\ rule_based = NoRule
    /\ ai_result = NoAi
    /\ validated = EmptyDict
    /\ deadline_warnings = <<>>
    /\ days_until = NoDays
    /\ today = Today0
    /\ called_on = Today0
    /\ remembered = NothingRemembered

Init ==
    /\ ValidatorIdle
    /\ ThreadsIdle
    /\ TaskIdle
    /\ workload = "all"
    /\ ParserIdle
    /\ EnsembleIdle

\* A caller calls validate_results(rule_based, ai_result).
Call ==
    /\ pc = "idle"
    /\ \E req \in Offered :
        /\ rule_based' = req.rule
        /\ ai_result' = req.ai
    /\ pc' = "basic"
    /\ called_on' = today
    /\ UNCHANGED <<validated, deadline_warnings, days_until, today>>
    /\ UNCHANGED <<repeatVars, parserVars, ensembleVars, threadVars, taskVars>>

\* Lines 53-54.
BasicStage ==
    /\ pc = "basic"
    /\ LET r == ValidateBasicFields(rule_based, ai_result)
       IN /\ validated' = IF r.raised THEN validated ELSE r.result
          /\ pc' = IF r.raised THEN "raised" ELSE "select"
    /\ UNCHANGED <<rule_based, ai_result, deadline_warnings, days_until, today, called_on>>
    /\ UNCHANGED <<repeatVars, parserVars, ensembleVars, threadVars, taskVars>>

\* Lines 56-59.
SelectStage ==
    /\ pc = "select"
    /\ validated' = SelectHighConfidenceResults(validated, rule_based, ai_result)
    /\ pc' = "deadline"
    /\ UNCHANGED <<rule_based, ai_result, deadline_warnings, days_until, today, called_on>>
    /\ UNCHANGED <<repeatVars, parserVars, ensembleVars, threadVars, taskVars>>

\* Lines 61-69.
DeadlineStage ==
    /\ pc = "deadline"
    /\ IF DateTruthy(validated.due_date)
       THEN LET priority_info ==
                    ValidateDeadlinePriority(validated.due_date,
                                             validated.priority, today)
            IN /\ validated' = [validated EXCEPT !.priority = priority_info.priority]
               /\ deadline_warnings' = priority_info.warnings
               /\ days_until' = [known |-> priority_info.parsed,
                                 n |-> priority_info.days]
       ELSE UNCHANGED <<validated, deadline_warnings, days_until>>
    /\ pc' = "consistency"
    /\ UNCHANGED <<rule_based, ai_result, today, called_on>>
    /\ UNCHANGED <<repeatVars, parserVars, ensembleVars, threadVars, taskVars>>

\* Lines 71-77.
ConsistencyStage ==
    /\ pc = "consistency"
    /\ validated' =
          [title |-> validated.title, due_date |-> validated.due_date,
           priority |-> validated.priority, category |-> validated.category,
           warnings |-> deadline_warnings \o CheckConsistency(validated, today)]
    /\ pc' = "done"
    /\ UNCHANGED <<rule_based, ai_result, deadline_warnings, days_until, today, called_on>>
    /\ UNCHANGED <<repeatVars, parserVars, ensembleVars, threadVars, taskVars>>

\* A validator that kept the list deadline_warnings from one call to the next.
Return_KeepsWarnings ==
    /\ pc = "done"
    /\ pc' = "idle"
    /\ rule_based' = NoRule
    /\ ai_result' = NoAi
    /\ validated' = EmptyDict
    /\ days_until' = NoDays
    /\ UNCHANGED <<deadline_warnings, today, called_on>>
    /\ remembered' = Observed(rule_based, ai_result)
    /\ UNCHANGED <<workload, parserVars, ensembleVars, threadVars, taskVars>>

\* The caller has the result; the validator keeps nothing of the request:
\* validated, deadline_warnings and days_until are locals of the call, and
\* __init__ (lines 18-23) sets the only attributes, which no stage assigns.
Return ==
    /\ pc = "done"
    /\ pc' = "idle"
    /\ rule_based' = NoRule
    /\ ai_result' = NoAi
    /\ validated' = EmptyDict
    /\ deadline_warnings' = <<>>
    /\ days_until' = NoDays
    /\ UNCHANGED <<today, called_on>>
    /\ remembered' = Observed(rule_based, ai_result)
    /\ UNCHANGED <<workload, parserVars, ensembleVars, threadVars, taskVars>>

\* Midnight passes: datetime.now().date() is the next day.
Tick ==
    /\ today < Today0 + MaxTicks
    /\ today' = today + 1
    /\ UNCHANGED <<pc, rule_based, ai_result, validated, deadline_warnings,
                   days_until, called_on>>
    /\ UNCHANGED <<repeatVars, parserVars, ensembleVars, threadVars, taskVars>>

Next ==
    \/ Call
    \/ BasicStage
    \/ SelectStage
    \/ DeadlineStage
    \/ ConsistencyStage
    \/ Return
    \/ Tick

Spec == Init /\ [][Next]_vars

\* The requests an observer remembers the first result of: an undated task,
\* a task due in three days reported Low, and a task two days overdue.
RememberedRequests ==
    { [rule |-> RuleRecord(TitleStr(<<"tesuto">>), d, "Low", None, 0, 0), ai |-> NoAi] :
        d \in {NoDate, DayString(3), DayString(-2)} }

\* An observer keeps the result of a call that ran within one day.
Remember ==
    /\ pc = "done"
    /\ ~remembered.known
    /\ called_on = today
    /\ [rule |-> rule_based, ai |-> ai_result] \in RememberedRequests
    /\ remembered' = [known |-> TRUE, rule |-> rule_based, ai |-> ai_result,
                      day |-> today, result |-> validated,
                      returned |-> FALSE, other |-> FALSE]
    /\ UNCHANGED <<validatorVars, workload, parserVars, ensembleVars, threadVars, taskVars>>

InitRepeat ==
    /\ ValidatorIdle
    /\ ThreadsIdle
    /\ TaskIdle
    /\ workload = "repeat"
    /\ ParserIdle
    /\ EnsembleIdle

NextRepeat ==
    \/ Call
    \/ BasicStage
    \/ SelectStage
    \/ DeadlineStage
    \/ ConsistencyStage
    \/ Remember
    \/ Return
    \/ Tick

\* One validator serving a workload in which requests are repeated.
SpecRepeat == InitRepeat /\ [][NextRepeat]_vars

(* ------------------------------------------------------------------ *)
(* Properties of validate_results                                      *)
(* ------------------------------------------------------------------ *)

\* The rule-based due date as strptime reads it.
RuleDue == Strptime(rule_based.due_date)

\* The text of the warning contains 期限切れ: the two overdue templates, and
\* the templates that name a level when the level is 期限切れ.
MentionsOverdue(w) ==
    \/ w.kind \in {"overdue_change", "overdue"}
    \/ w.kind \in {"adjust", "mismatch"} /\ w.level = "Overdue"

\* The priority the Urgency-Level table gives a due date that is not overdue,
\* as the specification lists it: High to 7 days, Medium to 14, Low beyond.
TablePriority(days) ==
    IF days <= 7 THEN PRIORITY_HIGH
    ELSE IF days <= 14 THEN PRIORITY_MEDIUM
    ELSE PRIORITY_LOW

\* C1: a request whose rule-based due date is a valid date before the day
\* of the request returns priority High and a warning that says overdue,
\* whatever priorities the two sources reported.
C1_OverdueIsHigh ==
    (pc = "done" /\ RuleDue.ok /\ RuleDue.ordinal < called_on)
        => /\ validated.priority = PRIORITY_HIGH
           /\ \E i \in DOMAIN validated.warnings :
                  MentionsOverdue(validated.warnings[i])

\* An overdue request that reported Low, with an AI record, returned High.
C1_Witness ==
    /\ pc = "done"
    /\ RuleDue.ok
    /\ RuleDue.ordinal < called_on
    /\ rule_based.priority = "Low"
    /\ ai_result.present
    /\ validated.priority = PRIORITY_HIGH

C4_AsClaimed ==
    pc = "done"
        => /\ validated.priority \in VALID_PRIORITIES
           /\ validated.category = None \/ validated.category \in VALID_CATEGORIES

\* C5, as claimed: the returned title is the rule-based title when that is
\* a non-empty string, the placeholder when it is missing, None or empty,
\* and never empty.
C5_AsClaimed ==
    pc = "done"
        => /\ TitleTruthy(rule_based.title) => validated.title = rule_based.title
           /\ ~TitleTruthy(rule_based.title) => validated.title = PlaceholderTitle
           /\ TitleTruthy(validated.title)

\* The warning is about the field: it reports the field changed, malformed
\* or not set.
WarningAbout(field, w) ==
    CASE field = "due_date" -> w.kind \in {"bad_format", "no_due_date"}
      [] field = "priority" -> w.kind \in {"overdue_change", "adjust", "mismatch"}
      [] field = "category" -> w.kind = "no_category"
      [] OTHER -> FALSE

SomeWarningAbout(field) ==
    \E i \in DOMAIN validated.warnings : WarningAbout(field, validated.warnings[i])

\* The labels priority_mapping knows: the vocabulary and its aliases.
MappedPriorities == {"High", "Medium", "Low", "Urgent", "Normal", "Lowish"}

\* C6, as claimed: when a malformed due date, or a priority or category
\* outside its vocabulary, was replaced by its safe default (no due date,
\* Medium, no category), the returned warnings have a warning about that
\* field.
C6_AsClaimed ==
    pc = "done"
        => /\ (DateTruthy(rule_based.due_date) /\ ~RuleDue.ok
                    /\ ~DateTruthy(validated.due_date))
                => SomeWarningAbout("due_date")
           /\ (Truthy(rule_based.priority)
                    /\ rule_based.priority \notin MappedPriorities
                    /\ TitlePriority(BasicTitle(rule_based), None) = None
                    /\ validated.priority = PRIORITY_MEDIUM)
                => SomeWarningAbout("priority")
           /\ (Truthy(rule_based.category)
                    /\ rule_based.category \notin VALID_CATEGORIES
                    /\ validated.category = None)
                => SomeWarningAbout("category")

\* What validate_results selects for the same rule-based record with no AI
\* record, before the deadline stage.
WithoutAi ==
    SelectHighConfidenceResults(ValidateBasicFields(rule_based, NoAi).result,
                                rule_based, NoAi)

\* C7, the clause "an AI value whose confidence is at or below THRESHOLD is
\* never selected", as claimed: with no due date and an AI record of such a
\* confidence, the priority and the category returned are those returned
\* for the rule-based record alone.
C7_AsClaimed ==
    (pc = "done" /\ ~DateTruthy(validated.due_date)
        /\ ai_result.present /\ ai_result.confidence <= THRESHOLD)
        => /\ validated.priority = WithoutAi.priority
           /\ validated.category = WithoutAi.category

\* C8, as claimed: the returned due date is the rule-based one when that is
\* valid, else the AI deadline when that is valid, and absent only when
\* neither is.
C8_AsClaimed ==
    pc = "done"
        => /\ RuleDue.ok => validated.due_date = rule_based.due_date
           /\ (~RuleDue.ok /\ ai_result.present /\ Strptime(ai_result.deadline).ok)
                => validated.due_date = ai_result.deadline
           /\ ~DateTruthy(validated.due_date)
                => ~RuleDue.ok /\ ~(ai_result.present /\ Strptime(ai_result.deadline).ok)

\* The warning says the priority was changed from one value to another.
PriorityChange(w, from, to) ==
    w.kind \in {"overdue_change", "adjust"} /\ w.from = from /\ w.to = to

\* The deadline stage runs on a request that has a due date.
DeadlineStep ==
    pc = "deadline" /\ pc' = "consistency" /\ DateTruthy(validated.due_date)

\* The priority of the Urgency-Level table, overdue dates included.
TablePriorityOrOverdue(days) ==
    IF days < 0 THEN PRIORITY_HIGH ELSE TablePriority(days)

\* C9, as claimed: with a valid due date, the deadline stage makes a
\* priority-change warning naming the old and the new priority exactly when
\* the table's priority differs from the selected one; when they agree the
\* priority is unchanged and there is no such warning.
C9_AsClaimed ==
    [][DeadlineStep =>
        LET table == TablePriorityOrOverdue(days_until'.n)
            changed == \E i \in DOMAIN deadline_warnings' :
                          PriorityChange(deadline_warnings'[i],
                                         validated.priority, validated'.priority)
        IN /\ days_until'.known
           /\ (table # validated.priority) <=> changed
           /\ table = validated.priority
                => validated'.priority = validated.priority]_vars

\* C9, amended: with a valid due date that is not overdue, the deadline
\* stage sets the table's priority and makes one priority-change warning
\* naming the old and the new priority exactly when the two differ, none
\* when they agree; with an overdue date it sets High and makes the overdue
\* warning naming the old priority and High always, also when the old
\* priority is High.
C9_ChangeWarnedUnlessOverdue ==
    [][DeadlineStep =>
        LET days == days_until'.n
            old == validated.priority
        IN /\ days_until'.known
           /\ validated'.priority = TablePriorityOrOverdue(days)
           /\ IF days < 0
              THEN deadline_warnings' =
                       <<OverdueChangeWarning(-days, old, PRIORITY_HIGH)>>
              ELSE IF TablePriority(days) # old
                   THEN /\ Len(deadline_warnings') = 1
                        /\ deadline_warnings'[1].kind = "adjust"
                        /\ deadline_warnings'[1].days = days
                        /\ PriorityChange(deadline_warnings'[1], old,
                                          TablePriority(days))
                   ELSE deadline_warnings' = <<>>]_vars

\* A request due in exactly 3 days that reported Low left the deadline stage
\* with priority High and the one warning of the change from Low to High.
C9_Witness ==
    /\ pc = "consistency"
    /\ days_until.known
    /\ days_until.n = 3
    /\ rule_based.priority = "Low"
    /\ validated.priority = PRIORITY_HIGH
    /\ deadline_warnings = <<AdjustWarning("Urgent", 3, "Low", PRIORITY_HIGH)>>

\* The keys of the dict validate_results returns.
ResultKeys == {"title", "due_date", "priority", "category", "warnings"}

RepeatsRemembered ==
    /\ remembered.known
    /\ remembered.returned
    /\ rule_based = remembered.rule
    /\ ai_result = remembered.ai
    /\ called_on = remembered.day
    /\ today = remembered.day

\* C11: a call of validate_results with the same rule-based record and the
\* same AI record as an earlier call of the same day returns the same dict
\* (title, due date, priority, category and the warnings in the same order),
\* whatever requests the validator served in between.
C11_SameInputSameResult ==
    (pc = "done" /\ RepeatsRemembered) => validated = remembered.result

\* A dated request is repeated, after a call with another request, and
\* returns its warnings again.
C11_Witness ==
    /\ pc = "done"
    /\ RepeatsRemembered
    /\ remembered.other
    /\ DateTruthy(rule_based.due_date)
    /\ validated = remembered.result
    /\ Len(validated.warnings) >= 2

(* ------------------------------------------------------------------ *)
(* EnsembleModel (src/models/ai/ensemble.py)                           *)
(*                                                                     *)
(* A similarity is a fraction num/den of hundredths: get_similarity    *)
(* divides the weighted sum by the total weight, and the fraction      *)
(* keeps the quotient exact.                                           *)
(* ------------------------------------------------------------------ *)

\* The similarity scores a provider is seen to return, in hundredths.
ScoreValues == {0, 40, 100}

\* What self.models[name].get_similarity(text1, text2) does in one call: it
\* returns a score or raises.
Score(s) == [ok |-> TRUE, score |-> s]
ScoreError == [ok |-> FALSE, score |-> 0]
ScoreOutcomes == {ScoreError} \cup {Score(s) : s \in ScoreValues}

\* The answers of the three providers seen in one get_similarity call: each
\* raises or returns a positive score.
SimilarityOutcomes == [Providers -> {ScoreError, Score(40), Score(100)}]

\* The weights an ensemble is constructed with: the default ones, or the
\* caller's (here two providers of equal weight).
WeightChoices ==
    { DefaultWeights,
      << [name |-> "word2vec", weight |-> 100], [name |-> "fasttext", weight |-> 100] >> }

Fraction(n, d) == [num |-> n, den |-> d]

\* The value get_similarity returns when no model has scored (line 186): 0.5.
FALLBACK_SIMILARITY == Fraction(50, 100)

SameFraction(a, b) == a.num * b.den = b.num * a.den

\* a > b, for fractions with positive denominators.
FractionGreater(a, b) == a.num * b.den > b.num * a.den

\* The ensemble's own state, and what an observer has seen of its loads.
EnsembleState ==
    [models |-> models, model_status |-> model_status,
     load_failed |-> load_failed, retried |-> retried]

\* _load_model (lines 32-48): a loaded model is not loaded again; otherwise
\* the provider is constructed, which raises when its model cannot be read
\* (or when the name is none of the three classes); the exception is logged
\* and nothing about the failure is kept.
LoadModel(st, model_name) ==
    IF model_name \in st.models
    THEN [ok |-> TRUE, st |-> st]
    ELSE LET tried == [st EXCEPT !.retried =
                            IF model_name \in st.load_failed
                            THEN @ \cup {model_name} ELSE @]
         IN IF model_name \in Providers /\ model_name \in loadable
            THEN [ok |-> TRUE,
                  st |-> [tried EXCEPT !.models = @ \cup {model_name},
                                       !.model_status[model_name] = TRUE]]
            ELSE [ok |-> FALSE,
                  st |-> [tried EXCEPT !.load_failed = @ \cup {model_name}]]

\* One pass of the loop of get_similarity that counted the weight of every
\* loaded model, also of one whose scoring raised.
SimilarityStep_CountsErrors(st, acc, entry, o) ==
    LET loaded == LoadModel(st, entry.name)
    IN IF ~loaded.ok THEN [st |-> loaded.st, acc |-> acc]
       ELSE [st |-> loaded.st,
             acc |-> [sum |-> acc.sum + (IF o.ok THEN o.score * entry.weight ELSE 0),
                      total_weight |-> acc.total_weight + entry.weight,
                      scored |-> IF o.ok THEN acc.scored \cup {entry.name}
                                 ELSE acc.scored]]

\* One pass of the loop of get_similarity (lines 175-182) for the entry
\* (model_name, weight) of self.weights: a model that loads and scores adds
\* score * weight to the list and its weight to total_weight; one that does
\* not load, or whose scoring raises, adds nothing.
SimilarityStep(st, acc, entry, o) ==
    LET loaded == LoadModel(st, entry.name)
    IN IF loaded.ok /\ o.ok
       THEN [st |-> loaded.st,
             acc |-> [sum |-> acc.sum + o.score * entry.weight,
                      total_weight |-> acc.total_weight + entry.weight,
                      scored |-> acc.scored \cup {entry.name}]]
       ELSE [st |-> loaded.st, acc |-> acc]

\* The loop over self.weights, in dictionary order.
RECURSIVE SimilarityLoop(_, _, _, _)
SimilarityLoop(st, ws, outcome, acc) ==
    IF ws = <<>> THEN [st |-> st, acc |-> acc]
    ELSE LET after == SimilarityStep(st, acc, Head(ws), outcome[Head(ws).name])
         IN SimilarityLoop(after.st, Tail(ws), outcome, after.acc)

\* get_similarity (lines 170-188): the loop, then the fallback when
\* total_weight is 0, else sum(similarities) / total_weight. The scores are
\* in hundredths, hence the 100 of the denominator.
GetSimilarityFrom(st, outcome) ==
    LET done == SimilarityLoop(st, weights, outcome,
                               [sum |-> 0, total_weight |-> 0, scored |-> {}])
    IN [st |-> done.st,
        scored |-> done.acc.scored,
        result |-> IF done.acc.total_weight = 0 THEN FALLBACK_SIMILARITY
                   ELSE IF done.acc.scored # {}
                        THEN Fraction(done.acc.sum, 100 * done.acc.total_weight)
                        ELSE Fraction(0, 1)]

\* What the providers answer for each of the n reference texts of one
\* estimate: q for every reference when the text is as close to all of them
\* (flat), else q for the reference the text is closest to (peak) and, for
\* the others, the score 0 of a provider that scores and the error of one
\* that raises.
OutcomesFor(q, peak, flat, n) ==
    [i \in 1..n |->
        [m \in Providers |->
            IF flat \/ i = peak \/ ~q[m].ok THEN q[m] ELSE Score(0)]]

\* The answers of the three providers seen in the estimates: all raise, all
\* return the same score, or they differ.
EstimateOutcomes ==
    { [m \in Providers |-> o] : o \in ScoreOutcomes } \cup
    { [laser |-> Score(100), word2vec |-> ScoreError, fasttext |-> Score(0)],
      [laser |-> Score(0), word2vec |-> Score(40), fasttext |-> Score(0)] }

\* The reference an estimate's text is closest to: the first or the last.
PeakChoices(n) == {1, n}

\* get_similarity called once per reference text, in order: the models one
\* call loads are there for the next.
RECURSIVE SimilaritiesFrom(_, _, _)
SimilaritiesFrom(st, outcomes, got) ==
    IF Len(got.results) = Len(outcomes)
    THEN [st |-> st, scored |-> got.scored, results |-> got.results]
    ELSE LET r == GetSimilarityFrom(st, outcomes[Len(got.results) + 1])
         IN SimilaritiesFrom(r.st, outcomes,
                             [scored |-> got.scored \cup r.scored,
                              results |-> Append(got.results, r.result)])

NothingGot == [scored |-> {}, results |-> <<>>]

\* max(similarities.items(), key=lambda x: x[1])[0] over the indices not in
\* skip: the first of the entries with the greatest score.
BestIndex(sims, skip) ==
    CHOOSE i \in DOMAIN sims \ skip :
        \A j \in DOMAIN sims \ skip :
            \/ FractionGreater(sims[i], sims[j])
            \/ SameFraction(sims[i], sims[j]) /\ i <= j

AboveThreshold(sim) == FractionGreater(sim, Fraction(THRESHOLD, 100))

\* Task.CATEGORY_KEYWORDS and Task.VALID_CATEGORIES, as lists.
CategoryNames == [i \in DOMAIN CATEGORY_KEYWORDS |-> CATEGORY_KEYWORDS[i].category]

\* Lines 215-219: the categories named in the text, or one of whose keywords
\* is in the text, in the order of Task.VALID_CATEGORIES.
ExplicitCategories(txt) ==
    SelectSeq(CategoryNames,
              LAMBDA c : \/ KeywordIn(c, txt)
                         \/ \E i \in DOMAIN CATEGORY_KEYWORDS :
                               /\ CATEGORY_KEYWORDS[i].category = c
                               /\ \E k \in CATEGORY_KEYWORDS[i].keywords : KeywordIn(k, txt))

FirstOf(seq, n) == SubSeq(seq, 1, IF Len(seq) < n THEN Len(seq) ELSE n)

\* Lines 226-241: the two categories of greatest similarity among those above
\* the threshold (sorted is stable: equal scores keep the dictionary order),
\* and the best category when none is above it.
SimilarCategories(sims) ==
    LET first == BestIndex(sims, {})
        second == BestIndex(sims, {first})
    IN IF ~AboveThreshold(sims[first]) THEN << CategoryNames[first] >>
       ELSE IF Len(sims) > 1 /\ AboveThreshold(sims[second])
            THEN << CategoryNames[first], CategoryNames[second] >>
            ELSE << CategoryNames[first] >>

\* EnsembleModel.estimate_category (lines 190-247), given the similarity of
\* the text to each category's keywords.
EnsembleCategory(txt, sims) ==
    [kind |-> "returned",
     categories |-> IF ExplicitCategories(txt) # <<>>
                    THEN FirstOf(ExplicitCategories(txt), 3)
                    ELSE SimilarCategories(sims),
     confidence |-> sims[BestIndex(sims, {})],
     scores |-> sims]

\* The priorities in the order of the dict of estimate_priority (lines 252-256).
PriorityNames == << PRIORITY_HIGH, PRIORITY_MEDIUM, PRIORITY_LOW >>

\* EnsembleModel.estimate_priority (lines 250-266).
EnsemblePriority(sims) ==
    [kind |-> "returned",
     priority |-> PriorityNames[BestIndex(sims, {})],
     confidence |-> sims[BestIndex(sims, {})],
     scores |-> sims]

\* The date_patterns of estimate_deadline (lines 270-276), in the order of
\* the dict: the expression and its number of days.
DeadlinePatterns ==
    << [pattern |-> "ashita", days |-> 1], [pattern |-> "asatte", days |-> 2],
       [pattern |-> "konshuuchuu", days |-> 7], [pattern |-> "raishuu", days |-> 7],
       [pattern |-> "kongetsuchuu", days |-> 30] >>

\* EnsembleModel.estimate_deadline (lines 268-293), given the similarity of
\* the text to each pattern, the similarity of the text to the best pattern
\* computed again (line 282) and the day of the call.
EnsembleDeadline(sims, similarity, now) ==
    IF AboveThreshold(similarity)
    THEN [kind |-> "returned",
          deadline |-> Strftime(DateOf(now + DeadlinePatterns[BestIndex(sims, {})].days)),
          days |-> DeadlinePatterns[BestIndex(sims, {})].days,
          confidence |-> similarity,
          matched_pattern |-> DeadlinePatterns[BestIndex(sims, {})].pattern]
    ELSE [kind |-> "returned", deadline |-> NoDate, days |-> 0,
          confidence |-> Fraction(0, 1), matched_pattern |-> None]

(* ------------------------------------------------------------------ *)
(* AIInference (src/models/ai/inference.py)                            *)
(* ------------------------------------------------------------------ *)

\* The methods of EnsembleModel (ensemble.py): the inference class calls
\* self.ensemble.get_weighted_similarity, which is none of them, so the call
\* raises AttributeError.
EnsembleMethods ==
    { "_load_model", "generate_title", "_tokenize_with_pos", "get_similarity",
      "estimate_category", "estimate_priority", "estimate_deadline", "cleanup" }

\* AIInference.estimate_category (lines 49-81): the first pass of the loop
\* over the five category references calls get_weighted_similarity (line
\* 64); the exception is caught and the record of line 81 returned.
InferenceCategory(txt) ==
    IF "get_weighted_similarity" \notin EnsembleMethods
    THEN [kind |-> "returned", category |-> None, confidence |-> Fraction(0, 1)]
    ELSE [kind |-> "raised", category |-> None, confidence |-> Fraction(0, 1)]

\* AIInference.estimate_priority (lines 83-139): the scores of the deadline
\* and of the keywords are added (lines 114-121), then line 125 raises; the
\* exception is caught and the record of line 139 returned.
InferencePriority(txt, deadline_days) ==
    IF "get_weighted_similarity" \notin EnsembleMethods
    THEN [kind |-> "returned", priority |-> PRIORITY_MEDIUM, confidence |-> Fraction(0, 1)]
    ELSE [kind |-> "raised", priority |-> None, confidence |-> Fraction(0, 1)]

\* AIInference.estimate_deadline_expression (lines 141-175): line 159
\* raises in the first pass; the record of line 175 is returned.
InferenceDeadlineExpression(txt) ==
    IF "get_weighted_similarity" \notin EnsembleMethods
    THEN [kind |-> "returned", estimated_days |-> None, confidence |-> Fraction(0, 1)]
    ELSE [kind |-> "raised", estimated_days |-> None, confidence |-> Fraction(0, 1)]

(* ------------------------------------------------------------------ *)
(* The ensemble and the inference class as a state machine             *)
(* ------------------------------------------------------------------ *)

\* The texts given to the estimates: one that names no category, one with a
\* category name and a keyword of another category, one with keywords of
\* four categories.
EstimateTexts ==
    { TitleStr(<<"tesuto">>), TitleStr(<<"Math", "kadai">>),
      TitleStr(<<"keisan", "toukei", "gakushuu", "kadai">>) }

InitEnsemble ==
    /\ ValidatorIdle
    /\ ThreadsIdle
    /\ TaskIdle
    /\ workload = "all"
    /\ ParserIdle
    /\ weights \in WeightChoices
    /\ models = {}
    /\ model_status = [m \in Providers |-> FALSE]
    /\ loadable \in SUBSET Providers
    /\ load_failed = {}
    /\ retried = {}
    /\ last_call = Pending
    /\ estimate = Pending

\* The ensembles whose estimates are observed: no model file can be read,
\* only one can, or all can.
InitEstimate ==
    /\ ValidatorIdle
    /\ ThreadsIdle
    /\ TaskIdle
    /\ workload = "all"
    /\ ParserIdle
    /\ weights \in WeightChoices
    /\ models = {}
    /\ model_status = [m \in Providers |-> FALSE]
    /\ loadable \in { {}, {"word2vec"}, Providers }
    /\ load_failed = {}
    /\ retried = {}
    /\ last_call = Pending
    /\ estimate = Pending

\* The ensemble after a call that left it in state st.
EnsembleBecomes(st) ==
    /\ models' = st.models
    /\ model_status' = st.model_status
    /\ load_failed' = st.load_failed
    /\ retried' = st.retried

\* A caller calls get_similarity(text1, text2).
GetSimilarity ==
    /\ \E outcome \in SimilarityOutcomes :
        LET r == GetSimilarityFrom(EnsembleState, outcome)
        IN /\ EnsembleBecomes(r.st)
           /\ last_call' = [kind |-> "similarity", outcome |-> outcome,
                            loaded |-> r.st.models, scored |-> r.scored,
                            result |-> r.result]
    /\ UNCHANGED <<weights, loadable, estimate>>
    /\ UNCHANGED <<validatorVars, repeatVars, parserVars, threadVars, taskVars>>

\* A caller calls EnsembleModel.estimate_category(text).
EstimateCategory ==
    /\ \E txt \in EstimateTexts, q \in EstimateOutcomes,
          peak \in PeakChoices(Len(CATEGORY_KEYWORDS)), flat \in BOOLEAN :
        LET r == SimilaritiesFrom(EnsembleState,
                                  OutcomesFor(q, peak, flat, Len(CATEGORY_KEYWORDS)),
                                  NothingGot)
        IN /\ EnsembleBecomes(r.st)
           /\ estimate' = [op |-> "ensemble.estimate_category", scored |-> r.scored,
                           result |-> EnsembleCategory(txt, r.results)]
    /\ UNCHANGED <<weights, loadable, last_call>>
    /\ UNCHANGED <<validatorVars, repeatVars, parserVars, threadVars, taskVars>>

\* A caller calls EnsembleModel.estimate_priority(text).
EstimatePriority ==
    /\ \E q \in EstimateOutcomes, peak \in PeakChoices(Len(PriorityNames)),
          flat \in BOOLEAN :
        LET r == SimilaritiesFrom(EnsembleState,
                                  OutcomesFor(q, peak, flat, Len(PriorityNames)),
                                  NothingGot)
        IN /\ EnsembleBecomes(r.st)
           /\ estimate' = [op |-> "ensemble.estimate_priority", scored |-> r.scored,
                           result |-> EnsemblePriority(r.results)]
    /\ UNCHANGED <<weights, loadable, last_call>>
    /\ UNCHANGED <<validatorVars, repeatVars, parserVars, threadVars, taskVars>>

\* A caller calls EnsembleModel.estimate_deadline(text): one similarity per
\* pattern, then the similarity to the best pattern once more.
EstimateDeadline ==
    /\ \E q \in EstimateOutcomes, peak \in PeakChoices(Len(DeadlinePatterns)),
          flat \in BOOLEAN :
        \E outcomes \in {OutcomesFor(q, peak, flat, Len(DeadlinePatterns))} :
        \E r \in {SimilaritiesFrom(EnsembleState, outcomes, NothingGot)} :
        \E again \in {GetSimilarityFrom(r.st, outcomes[BestIndex(r.results, {})])} :
           /\ EnsembleBecomes(again.st)
           /\ estimate' = [op |-> "ensemble.estimate_deadline",
                           scored |-> r.scored \cup again.scored,
                           similarities |-> r.results,
                           result |-> EnsembleDeadline(r.results, again.result, today)]
    /\ UNCHANGED <<weights, loadable, last_call>>
    /\ UNCHANGED <<validatorVars, repeatVars, parserVars, threadVars, taskVars>>

\* A caller calls AIInference.estimate_category(text): the ensemble is not
\* reached.
InferenceEstimateCategory ==
    /\ \E txt \in EstimateTexts :
        estimate' = [op |-> "inference.estimate_category", scored |-> {},
                     result |-> InferenceCategory(txt)]
    /\ UNCHANGED <<weights, models, model_status, loadable, load_failed, retried, last_call>>
    /\ UNCHANGED <<validatorVars, repeatVars, parserVars, threadVars, taskVars>>

\* A caller calls AIInference.estimate_priority(text, deadline_days).
InferenceEstimatePriority ==
    /\ \E txt \in EstimateTexts, deadline_days \in {-1, 0, 3, 7, 8} :
        estimate' = [op |-> "inference.estimate_priority", scored |-> {},
                     result |-> InferencePriority(txt, deadline_days)]
    /\ UNCHANGED <<weights, models, model_status, loadable, load_failed, retried, last_call>>
    /\ UNCHANGED <<validatorVars, repeatVars, parserVars, threadVars, taskVars>>

\* A caller calls AIInference.estimate_deadline_expression(text).
InferenceEstimateDeadline ==
    /\ \E txt \in EstimateTexts :
        estimate' = [op |-> "inference.estimate_deadline_expression", scored |-> {},
                     result |-> InferenceDeadlineExpression(txt)]
    /\ UNCHANGED <<weights, models, model_status, loadable, load_failed, retried, last_call>>
    /\ UNCHANGED <<validatorVars, repeatVars, parserVars, threadVars, taskVars>>

\* EnsembleModel.cleanup (lines 295-299): self.models is cleared;
\* model_status is left as it is.
Cleanup ==
    /\ models # {}
    /\ models' = {}
    /\ UNCHANGED <<weights, model_status, loadable, load_failed, retried, last_call, estimate>>
    /\ UNCHANGED <<validatorVars, repeatVars, parserVars, threadVars, taskVars>>

\* A model file changes on disk (a download completes, a file is removed):
\* the constructor of its provider succeeds, or fails, from now on.
FilesChange ==
    /\ \E m \in Providers :
        loadable' = IF m \in loadable THEN loadable \ {m} ELSE loadable \cup {m}
    /\ UNCHANGED <<weights, models, model_status, load_failed, retried, last_call, estimate>>
    /\ UNCHANGED <<validatorVars, repeatVars, parserVars, threadVars, taskVars>>

NextEnsemble ==
    \/ GetSimilarity
    \/ Cleanup
    \/ FilesChange

\* An ensemble answering similarity calls while model files come and go.
SpecEnsemble == InitEnsemble /\ [][NextEnsemble]_vars

NextEstimate ==
    \/ EstimateCategory
    \/ EstimatePriority
    \/ EstimateDeadline
    \/ InferenceEstimateCategory
    \/ InferenceEstimatePriority
    \/ InferenceEstimateDeadline
    \/ Cleanup

\* The estimates of an ensemble and of the inference class built on it.
SpecEstimate == InitEstimate /\ [][NextEstimate]_vars

(* ------------------------------------------------------------------ *)
(* Properties of the ensemble                                          *)
(* ------------------------------------------------------------------ *)

\* The providers available to the last get_similarity call: those with a
\* weight whose model was loaded when the call returned and whose scoring
\* did not raise.
AvailableProviders ==
    { m \in Providers :
        /\ \E i \in DOMAIN weights : weights[i].name = m
        /\ m \in last_call.loaded
        /\ last_call.outcome[m].ok }

\* The sum, over the entries of self.weights whose provider is in S, of the
\* weight (scores FALSE) or of score x weight (scores TRUE), the score in
\* hundredths.
RECURSIVE SumOver(_, _, _)
SumOver(ws, S, scores) ==
    IF ws = <<>> THEN 0
    ELSE (IF Head(ws).name \notin S THEN 0
          ELSE IF scores THEN last_call.outcome[Head(ws).name].score * Head(ws).weight
               ELSE Head(ws).weight)
         + SumOver(Tail(ws), S, scores)

\* C18: get_similarity returns the sum of score x weight divided by the sum
\* of the weights, both over the providers available to the call only, and
\* 0.5 when none is available.
C18_WeightedMeanOfAvailable ==
    last_call.kind = "similarity" =>
        IF AvailableProviders = {}
        THEN SameFraction(last_call.result, Fraction(1, 2))
        ELSE /\ last_call.result.den > 0
             /\ SameFraction(last_call.result,
                             Fraction(SumOver(weights, AvailableProviders, TRUE),
                                      100 * SumOver(weights, AvailableProviders, FALSE)))

\* With the default weights, laser could not be loaded, and word2vec and
\* fasttext returned different scores: the result is (40 x 0.3 + 100 x 0.2)
\* / 0.5 = 0.64, whatever the weight and the score of laser.
C18_Witness ==
    /\ last_call.kind = "similarity"
    /\ weights = DefaultWeights
    /\ AvailableProviders = {"word2vec", "fasttext"}
    /\ last_call.outcome["laser"] = Score(100)
    /\ last_call.outcome["word2vec"] = Score(40)
    /\ last_call.outcome["fasttext"] = Score(100)
    /\ SameFraction(last_call.result, Fraction(64, 100))

\* C19 as claimed: once the load of a provider has failed, no later
\* similarity call constructs it again, has it loaded, or uses its score.
C19_AsClaimed ==
    /\ retried = {}
    /\ models \cap load_failed = {}
    /\ (last_call.kind = "similarity" => last_call.scored \cap load_failed = {})

\* C20 as claimed: when no provider is available, estimate_category and
\* estimate_priority, of the ensemble and of the inference class, return a
\* record with a category (or a list of categories) of the vocabulary, or a
\* priority of the vocabulary, and a confidence.
C20_AsClaimed ==
    /\ (/\ estimate # Pending
        /\ estimate.op = "ensemble.estimate_category"
        /\ estimate.scored = {})
       => /\ estimate.result.kind = "returned"
          /\ estimate.result.categories # <<>>
          /\ \A i \in DOMAIN estimate.result.categories :
                estimate.result.categories[i] \in VALID_CATEGORIES
          /\ estimate.result.confidence.den > 0
    /\ (/\ estimate # Pending
        /\ estimate.op = "ensemble.estimate_priority"
        /\ estimate.scored = {})
       => /\ estimate.result.kind = "returned"
          /\ estimate.result.priority \in {PRIORITY_HIGH, PRIORITY_MEDIUM, PRIORITY_LOW}
          /\ estimate.result.confidence.den > 0
    /\ (/\ estimate # Pending
        /\ estimate.op = "inference.estimate_category"
        /\ loadable = {})
       => /\ estimate.result.kind = "returned"
          /\ estimate.result.category # None
          /\ estimate.result.confidence.den > 0
    /\ (/\ estimate # Pending
        /\ estimate.op = "inference.estimate_priority"
        /\ loadable = {})
       => /\ estimate.result.kind = "returned"
          /\ estimate.result.priority \in {PRIORITY_HIGH, PRIORITY_MEDIUM, PRIORITY_LOW}
          /\ estimate.result.confidence.den > 0

(* ------------------------------------------------------------------ *)
(* TextParser (src/utils/text_parser.py)                               *)
(*                                                                     *)
(* A text is the sequence of its tokens, each an ASCII name of a       *)
(* substring of the program's text:                                    *)
(*   add       the command word          _        a space              *)
(*   fwspace   a full-width space        |        the field separator  *)
(*   Math      数学 (a category name)     toukei   統計 (a keyword of    *)
(*   juuyou    重要 (keyword of High)              Statistics)          *)
(*   narubeku  なるべく, dekireba できれば (keywords of Medium)           *)
(*   yoyuu     余裕 (keyword of Low)      ashita   明日                  *)
(*   made      まで                       repooto  レポート               *)
(*   kigen:    期限:   yuusendo:  優先度:   bunya:  分野:                 *)
(*   kigen(fw) 期限 followed by a full-width colon                      *)
(* "keyword in text" is the presence of the token.                     *)
(* ------------------------------------------------------------------ *)

\* A natural-language text has at most this many tokens.
MaxWords == 3

\* The tokens of the natural-language texts.
Vocabulary ==
    { "add", "_", "|", "Math", "toukei", "juuyou", "narubeku", "dekireba",
      "yoyuu", "ashita", "made", "repooto" }

RECURSIVE WordsUpTo(_)
WordsUpTo(n) ==
    IF n = 0 THEN { <<>> }
    ELSE WordsUpTo(n - 1) \cup
         { Append(ws, w) : ws \in { x \in WordsUpTo(n - 1) : Len(x) = n - 1 },
                           w \in Vocabulary }

\* The format of the docstring of _parse_formatted_text (line 243), the
\* same with an unpadded date and a full-width colon, and texts of spaces.
FormattedTexts ==
    { << "repooto", "_", "|", "_", "kigen:", "2024-03-20", "_", "|", "_",
         "yuusendo:", "High", "_", "|", "_", "bunya:", "Math" >>,
      << "add", "_", "repooto", "|", "kigen(fw)", "2024-3-20" >>,
      << "repooto", "|", "kigen:", "ashita" >>,
      << "fwspace" >>,
      << "add", "_", "fwspace" >> }

\* The texts given to parse_task_info.
ParserTexts == { TitleStr(ws) : ws \in WordsUpTo(MaxWords) \cup FormattedTexts }

\* self.category_keywords (lines 34-40) in dictionary order; of each list
\* the keywords the texts can hold.
category_keywords ==
    << [category |-> "Math",            keywords |-> {"keisan"}],
       [category |-> "Statistics",      keywords |-> {"toukei"}],
       [category |-> "MachineLearning", keywords |-> {"gakushuu"}],
       [category |-> "Theory",          keywords |-> {"riron"}],
       [category |-> "Programming",     keywords |-> {"koodo"}] >>

\* self.priority_keywords (lines 43-47) in dictionary order; of each list
\* the keywords the texts can hold.
priority_keywords ==
    << [level |-> PRIORITY_HIGH,   keywords |-> {"juuyou"}],
       [level |-> PRIORITY_MEDIUM, keywords |-> {"narubeku", "dekireba"}],
       [level |-> PRIORITY_LOW,    keywords |-> {"yoyuu"}] >>

\* str.strip(): the spaces at both ends are removed.
RECURSIVE Strip(_)
Strip(ws) ==
    IF ws = <<>> THEN ws
    ELSE IF Head(ws) = "_" THEN Strip(Tail(ws))
    ELSE IF ws[Len(ws)] = "_" THEN Strip(SubSeq(ws, 1, Len(ws) - 1))
    ELSE ws

\* The replace calls of line 106: full-width colon and space become ASCII.
Normalise(ws) ==
    [i \in DOMAIN ws |->
        IF ws[i] = "fwspace" THEN "_"
        ELSE IF ws[i] = "kigen(fw)" THEN "kigen:"
        ELSE ws[i]]

\* The member of a singleton. A value that the code assigns to a local and
\* then reads several times is bound once by  TheOne({ e(x) : x \in {v} }),
\* e being what the code computes from the local x.
TheOne(S) == CHOOSE r \in S : TRUE

\* str.find: the least index of the token in the text, 0 when it is not in it.
Find(ws, token) ==
    IF \E i \in DOMAIN ws : ws[i] = token
    THEN FirstIndex({ i \in DOMAIN ws : ws[i] = token })
    ELSE 0

\* _preprocess_text (lines 97-107): the text after the first "add",
\* stripped, when there is one, else the text; None when that is empty;
\* else its normalised and stripped form, which can be empty.
PreprocessText(t) ==
    LET at == Find(t.words, "add")
        task_info == IF at > 0
                     THEN Strip(SubSeq(t.words, at + 1, Len(t.words)))
                     ELSE t.words
    IN IF task_info = <<>> THEN TitleNone
       ELSE TitleStr(Strip(Normalise(task_info)))

\* The patterns of _extract_date (lines 453-495), in the order of the dict.
DatePatterns ==
    << "ymd", "md", "kyou", "ashita", "asatte", "nichigo", "konshuumatsu",
       "raishuumatsu", "kongetsumatsu", "raigetsumatsu", "konshuu_no", "raishuu_no" >>

\* The date expressions the texts can hold, each a token: the pattern it
\* matches and the numbers of its groups. 12gatsu5nichi = 12月5日, kyou = 今日,
\* ashita = 明日, asatte = 明後日, 3nichigo = 3日後, konshuumatsu = 今週末,
\* raishuumatsu = 来週末, kongetsumatsu = 今月末, raigetsumatsu = 来月末,
\* konshuu_no_getsuyoubi = 今週の月曜日; a weekday is numbered as in the dict of
\* _get_days_until_weekday (lines 550-553).
DateExpression(token, pattern, a, b, c) ==
    [token |-> token, pattern |-> pattern, a |-> a, b |-> b, c |-> c]

DateExpressions ==
    { DateExpression("2026/12/5", "ymd", 2026, 12, 5),
      DateExpression("2026-13-45", "ymd", 2026, 13, 45),
      DateExpression("2027-02-30", "ymd", 2027, 2, 30),
      DateExpression("12gatsu5nichi", "md", 12, 5, 0),
      DateExpression("2/30", "md", 2, 30, 0),
      DateExpression("kyou", "kyou", 0, 0, 0),
      DateExpression("ashita", "ashita", 0, 0, 0),
      DateExpression("asatte", "asatte", 0, 0, 0),
      DateExpression("3nichigo", "nichigo", 3, 0, 0),
      DateExpression("konshuumatsu", "konshuumatsu", 0, 0, 0),
      DateExpression("raishuumatsu", "raishuumatsu", 0, 0, 0),
      DateExpression("kongetsumatsu", "kongetsumatsu", 0, 0, 0),
      DateExpression("raigetsumatsu", "raigetsumatsu", 0, 0, 0),
      DateExpression("konshuu_no_getsuyoubi", "konshuu_no", 0, 0, 0),
      DateExpression("konshuu_no_nichiyoubi", "konshuu_no", 6, 0, 0),
      DateExpression("raishuu_no_suiyoubi", "raishuu_no", 2, 0, 0) }

\* The tokens a pattern matches, and the expression of a token.
TokensOf(pattern) == { e.token : e \in { x \in DateExpressions : x.pattern = pattern } }
ExpressionOf(token) == CHOOSE e \in DateExpressions : e.token = token

\* deadline_patterns (line 451), of which the texts can hold "made".
DeadlineWords == { "made" }

NoDateInfo == [found |-> FALSE, date |-> NoDate, remaining_text |-> <<>>, confidence |-> 0]

\* date.weekday() of an ordinal: Monday is 0 and Sunday 6.
Weekday(n) == (n + 2) % 7

\* _get_days_until_weekday (lines 540-566): the days to the next day of
\* that name, a week when it is today's.
DaysUntilWeekday(target_weekday, now) ==
    IF target_weekday - Weekday(now) <= 0
    THEN target_weekday - Weekday(now) + 7
    ELSE target_weekday - Weekday(now)

\* What a date function of the patterns dict does: it returns a string or
\* raises ValueError.
DateMade(date) == [ok |-> TRUE, date |-> date]
DateValueError == [ok |-> FALSE, date |-> NoDate]

\* The lambda of 来月末 (lines 483-488): the first day of this month plus 32
\* days, its day replaced by the number of days of the month that comes 32
\* days after today; replace raises ValueError for a day the month lacks.
EndOfNextMonth(now) ==
    TheOne({ TheOne({ IF DaysInMonth(later.y, later.m) > DaysInMonth(base.y, base.m)
                      THEN DateValueError
                      ELSE DateMade(Strftime([y |-> base.y, m |-> base.m,
                                              d |-> DaysInMonth(later.y, later.m)]))
                      : later \in {DateOf(now + 32)} })
             : base \in {DateOf(Ordinal(DateOf(now).y, DateOf(now).m, 1) + 32)} })

\* The lambdas of the patterns dict (lines 455-495) on the expression e,
\* with now the ordinal of datetime.now(): the year-month-day and month-day
\* patterns format the numbers they captured, the others add days to now.
DateFunc(e, now) ==
    IF e.pattern = "ymd" THEN DateMade(DateStr("padded", e.a, e.b, e.c))
    ELSE IF e.pattern = "md" THEN DateMade(DateStr("padded", DateOf(now).y, e.a, e.b))
    ELSE IF e.pattern = "kyou" THEN DateMade(Strftime(DateOf(now)))
    ELSE IF e.pattern = "ashita" THEN DateMade(Strftime(DateOf(now + 1)))
    ELSE IF e.pattern = "asatte" THEN DateMade(Strftime(DateOf(now + 2)))
    ELSE IF e.pattern = "nichigo" THEN DateMade(Strftime(DateOf(now + e.a)))
    ELSE IF e.pattern = "konshuumatsu"
         THEN DateMade(Strftime(DateOf(now + (5 - Weekday(now)))))
    ELSE IF e.pattern = "raishuumatsu"
         THEN DateMade(Strftime(DateOf(now + (12 - Weekday(now)))))
    ELSE IF e.pattern = "kongetsumatsu"
         THEN DateMade(Strftime([y |-> DateOf(now).y, m |-> DateOf(now).m,
                                 d |-> DaysInMonth(DateOf(now).y, DateOf(now).m)]))
    ELSE IF e.pattern = "raigetsumatsu" THEN EndOfNextMonth(now)
    ELSE IF e.pattern = "konshuu_no"
         THEN DateMade(Strftime(DateOf(now + DaysUntilWeekday(e.a, now))))
    ELSE DateMade(Strftime(DateOf(now + DaysUntilWeekday(e.a, now) + 7)))

\* The text without the tokens from index a to index b, stripped (lines
\* 509-513).
Without(ws, a, b) == Strip(SubSeq(ws, 1, a - 1) \o SubSeq(ws, b + 1, Len(ws)))

\* re.search of the combined pattern of line 501 for the expressions of one
\* pattern: the leftmost date followed by a deadline word, or deadline word
\* followed by a date, up to the nearest such follower. The span is
\* <<0, 0>> when there is no match.
CombinedMatch(ws, tokens) ==
    LET Follows(i, S) == { j \in DOMAIN ws : j > i /\ ws[j] \in S }
        starts == { i \in DOMAIN ws :
                      \/ ws[i] \in tokens /\ Follows(i, DeadlineWords) # {}
                      \/ ws[i] \in DeadlineWords /\ Follows(i, tokens) # {} }
    IN IF starts = {} THEN << 0, 0 >>
       ELSE LET i == FirstIndex(starts)
            IN << i, FirstIndex(IF ws[i] \in tokens THEN Follows(i, DeadlineWords)
                                ELSE Follows(i, tokens)) >>

\* The date expression in the span of a combined match (line 504): the one
\* the span starts with, or the one it ends with.
DateIn(ws, span, tokens) ==
    IF ws[span[1]] \in tokens THEN ExpressionOf(ws[span[1]]) ELSE ExpressionOf(ws[span[2]])

\* The first loop of _extract_date (lines 499-518), from pattern k on: a
\* date function that raises ValueError leaves the match to the patterns
\* after it.
RECURSIVE ExtractDateWithDeadline(_, _, _)
ExtractDateWithDeadline(ws, now, k) ==
    IF k > Len(DatePatterns) THEN NoDateInfo
    ELSE TheOne({
           IF span[1] > 0 /\ DateFunc(DateIn(ws, span, TokensOf(DatePatterns[k])), now).ok
           THEN [found |-> TRUE,
                 date |-> DateFunc(DateIn(ws, span, TokensOf(DatePatterns[k])), now).date,
                 remaining_text |-> Without(ws, span[1], span[2]),
                 confidence |-> 100]
           ELSE ExtractDateWithDeadline(ws, now, k + 1)
           : span \in {CombinedMatch(ws, TokensOf(DatePatterns[k]))} })

\* The leftmost token of the text that is one of tokens; 0 when there is
\* none.
FindAny(ws, tokens) ==
    IF \E i \in DOMAIN ws : ws[i] \in tokens
    THEN FirstIndex({ i \in DOMAIN ws : ws[i] \in tokens })
    ELSE 0

\* The second loop of _extract_date (lines 521-536), from pattern k on.
RECURSIVE ExtractDateAlone(_, _, _)
ExtractDateAlone(ws, now, k) ==
    IF k > Len(DatePatterns) THEN NoDateInfo
    ELSE TheOne({
           IF at > 0 /\ DateFunc(ExpressionOf(ws[at]), now).ok
           THEN [found |-> TRUE,
                 date |-> DateFunc(ExpressionOf(ws[at]), now).date,
                 remaining_text |-> Without(ws, at, at),
                 confidence |-> 80]
           ELSE ExtractDateAlone(ws, now, k + 1)
           : at \in {FindAny(ws, TokensOf(DatePatterns[k]))} })

\* _extract_date (lines 425-538): NoDateInfo stands for None.
ExtractDate(ws, now) ==
    TheOne({ IF with.found THEN with ELSE ExtractDateAlone(ws, now, 1)
             : with \in {ExtractDateWithDeadline(ws, now, 1)} })

NoCategoryInfo ==
    [kind |-> "none", category |-> None, remaining_text |-> <<>>, confidence |-> 0]

\* The categories one of whose keywords is in the text: the keys of
\* matched_keywords (lines 595-601).
MatchedCategories(ws) ==
    { i \in DOMAIN category_keywords :
        \E k \in category_keywords[i].keywords : \E j \in DOMAIN ws : ws[j] = k }

\* The name by which the text holds a category: the categories other than
\* Math are not named in the texts.
NamedIn(category, ws) == \E j \in DOMAIN ws : ws[j] = category

\* _extract_category (lines 568-615): the first category named in the text
\* is returned with the name removed (lines 587-593); else the keywords are
\* counted, and when none matched (line 603, `if not matched_keywords`) max
\* of the empty dict raises ValueError (line 605); when some matched, None
\* is returned (line 615).
ExtractCategory(ws) ==
    LET named == { i \in DOMAIN category_keywords : NamedIn(category_keywords[i].category, ws) }
    IN IF named # {}
       THEN LET c == category_keywords[FirstIndex(named)].category
            IN [kind |-> "found", category |-> c,
                remaining_text |-> SelectSeq(ws, LAMBDA w : w # c),
                confidence |-> 100]
       ELSE IF MatchedCategories(ws) = {}
            THEN [kind |-> "raised", category |-> None, remaining_text |-> ws,
                  confidence |-> 0]
            ELSE NoCategoryInfo

\* The index in priority_keywords of a priority.
LevelIndex(p) == CHOOSE i \in DOMAIN priority_keywords : priority_keywords[i].level = p

\* max(priority_scores.items(), key=lambda x: x[1]) (line 699): the first
\* of the priorities with the greatest score.
BestLevel(scores) ==
    CHOOSE i \in DOMAIN scores :
        \A j \in DOMAIN scores : scores[i] > scores[j] \/ (scores[i] = scores[j] /\ i <= j)

\* _extract_priority (lines 636-720), scores in hundredths: Medium starts
\* at 0.3; a date within 3 days adds 0.4 to High, within 7 days 0.3 to
\* Medium, a later one 0.2 to Low (lines 663-676); every keyword in the text
\* adds 0.4 to its priority (lines 679-684); the estimate of the inference
\* class adds 0.3 of its confidence when that exceeds 0.3 (lines 687-694).
ExtractPriority(ws, date_info, ai, now) ==
    LET days_to_deadline == Strptime(date_info.date).ordinal - now
        dated == date_info.found /\ Strptime(date_info.date).ok
        by_date == [i \in DOMAIN priority_keywords |->
                      IF ~dated THEN 0
                      ELSE IF days_to_deadline <= 3
                           THEN (IF i = LevelIndex(PRIORITY_HIGH) THEN 40 ELSE 0)
                      ELSE IF days_to_deadline <= 7
                           THEN (IF i = LevelIndex(PRIORITY_MEDIUM) THEN 30 ELSE 0)
                      ELSE (IF i = LevelIndex(PRIORITY_LOW) THEN 20 ELSE 0)]
        by_keyword == [i \in DOMAIN priority_keywords |->
                         40 * Cardinality({ k \in priority_keywords[i].keywords :
                                              \E j \in DOMAIN ws : ws[j] = k })]
        ai_estimate == InferencePriority(TitleStr(ws), None)
        by_ai == [i \in DOMAIN priority_keywords |->
                    IF /\ ai
                       /\ ai_estimate.kind = "returned"
                       /\ FractionGreater(ai_estimate.confidence, Fraction(30, 100))
                       /\ i = LevelIndex(ai_estimate.priority)
                    THEN (30 * ai_estimate.confidence.num) \div ai_estimate.confidence.den
                    ELSE 0]
        priority_scores == [i \in DOMAIN priority_keywords |->
                              (IF i = LevelIndex(PRIORITY_MEDIUM) THEN 30 ELSE 0)
                              + by_date[i] + by_keyword[i] + by_ai[i]]
    IN TheOne({ IF scores[BestLevel(scores)] < 30
                THEN [priority |-> PRIORITY_MEDIUM, remaining_text |-> ws,
                      confidence |-> 30, scores |-> scores]
                ELSE [priority |-> priority_keywords[BestLevel(scores)].level,
                      remaining_text |-> ws,
                      confidence |-> scores[BestLevel(scores)], scores |-> scores]
                : scores \in { priority_scores } })

\* What the patterns of _clean_title_text (lines 370-383) leave of a token:
\* "made" is a particle; the last character of juuyou and the first of
\* dekireba are among the removed expressions.
CleanedToken(w) ==
    IF w = "made" THEN << "_" >>
    ELSE IF w = "juuyou" THEN << "juu", "_" >>
    ELSE IF w = "dekireba" THEN << "_", "kireba" >>
    ELSE << w >>

RECURSIVE CleanedTokens(_)
CleanedTokens(ws) ==
    IF ws = <<>> THEN <<>> ELSE CleanedToken(Head(ws)) \o CleanedTokens(Tail(ws))

\* re.sub(r'\s+', ' ', text) (line 395).
RECURSIVE CollapseSpaces(_)
CollapseSpaces(ws) ==
    IF Len(ws) < 2 THEN ws
    ELSE IF ws[1] = "_" /\ ws[2] = "_" THEN CollapseSpaces(Tail(ws))
    ELSE << Head(ws) >> \o CollapseSpaces(Tail(ws))

\* _clean_title_text (lines 359-397).
CleanTitleText(ws) == Strip(CollapseSpaces(CleanedTokens(ws)))

\* _generate_title (lines 399-418); "no" is the particle put between the
\* category and the text.
GenerateTitle(ws, category) ==
    LET cleaned == CleanTitleText(ws)
    IN IF category = None THEN [title |-> TitleStr(cleaned), confidence |-> 70]
       ELSE IF NamedIn(category, cleaned)
            THEN [title |-> TitleStr(cleaned), confidence |-> 90]
            ELSE [title |-> TitleStr(<< category, "no" >> \o cleaned), confidence |-> 80]

\* text.split("|") (line 266).
RECURSIVE SplitFields(_)
SplitFields(ws) ==
    LET at == Find(ws, "|")
    IN IF at = 0 THEN << ws >>
       ELSE << SubSeq(ws, 1, at - 1) >> \o SplitFields(SubSeq(ws, at + 1, Len(ws)))

\* comp.split(key)[1].strip(): what follows the first key, up to the next.
ValueAfter(comp, key) ==
    LET at == Find(comp, key)
        rest == SubSeq(comp, at + 1, Len(comp))
        next == Find(rest, key)
    IN Strip(IF next = 0 THEN rest ELSE SubSeq(rest, 1, next - 1))

\* The strings of digits the formatted texts hold, as due-date strings.
IsoDates ==
    << [token |-> "2024-03-20", date |-> DateStr("padded", 2024, 3, 20)],
       [token |-> "2024-3-20",  date |-> DateStr("unpadded", 2024, 3, 20)] >>

\* _parse_date (lines 722-728): the %Y-%m-%d form of a string strptime
\* accepts, and any other string unchanged (here: kept as a text).
ParseDate(value) ==
    LET known == { i \in DOMAIN IsoDates : value = << IsoDates[i].token >> }
    IN IF known # {} /\ Strptime(IsoDates[FirstIndex(known)].date).ok
       THEN LET d == IsoDates[FirstIndex(known)].date
            IN Strftime([y |-> d.y, m |-> d.m, d |-> d.d])
       ELSE DateStr("text", 0, 0, 0)

\* The loop of lines 269-280 from component k on.
RECURSIVE ParseFields(_, _, _)
ParseFields(components, k, result) ==
    IF k > Len(components) THEN result
    ELSE LET comp == Strip(components[k])
             Has(key) == \E i \in DOMAIN comp : comp[i] = key
         IN ParseFields(components, k + 1,
                IF Has("kigen:")
                THEN [result EXCEPT !.due_date =
                        [value |-> ParseDate(ValueAfter(comp, "kigen:")), confidence |-> 100]]
                ELSE IF Has("yuusendo:")
                THEN [result EXCEPT !.priority =
                        [value |-> TitleStr(ValueAfter(comp, "yuusendo:")), confidence |-> 100]]
                ELSE IF Has("bunya:")
                THEN [result EXCEPT !.category =
                        [value |-> TitleStr(ValueAfter(comp, "bunya:")), confidence |-> 100]]
                ELSE result)

\* _parse_formatted_text (lines 240-282): the record has no "confidence"
\* key; each field but the title is a dict of a value and a confidence.
ParseFormattedText(ws) ==
    ParseFields(SplitFields(ws), 2,
        [kind |-> "formatted",
         title |-> TitleStr(Strip(SplitFields(ws)[1])),
         due_date |-> [value |-> NoDate, confidence |-> 0],
         priority |-> [value |-> TitleNone, confidence |-> 0],
         category |-> [value |-> TitleNone, confidence |-> 0]])

\* A call that raised.
Raised(error) == [kind |-> "raised", error |-> error]

\* Lines 143-153, given the date and the category extracted: the priority
\* of the text the category extraction left, then the title of the text the
\* priority extraction left. _extract_priority is called with the text only
\* (line 144), so without the date.
AnalysisAfterCategory(ws, ai, now, date_info, category_info) ==
    TheOne({
      TheOne({
        [kind |-> "natural",
         title |-> title_info.title,
         due_date |-> date_info.date,
         priority |-> priority_info.priority,
         category |-> category_info.category,
         confidence |-> [title |-> title_info.confidence,
                         due_date |-> date_info.confidence,
                         priority |-> priority_info.confidence,
                         category |-> category_info.confidence]]
        : title_info \in { GenerateTitle(priority_info.remaining_text,
                                         category_info.category) } })
      : priority_info \in
          { ExtractPriority(IF category_info.kind = "found"
                            THEN category_info.remaining_text
                            ELSE IF date_info.found THEN date_info.remaining_text
                            ELSE ws,
                            NoDateInfo, ai, now) } })

\* Lines 136-141, given the date extracted: the category of the text the
\* date extraction left. The exception of _extract_category is not caught.
AnalysisAfterDate(ws, ai, now, date_info) ==
    TheOne({
      IF category_info.kind = "raised" THEN Raised("ValueError")
      ELSE AnalysisAfterCategory(ws, ai, now, date_info, category_info)
      : category_info \in
          { ExtractCategory(IF date_info.found THEN date_info.remaining_text ELSE ws) } })

\* _rule_based_analysis (lines 109-155): the formatted text, or date,
\* category, priority and title in turn, each on the text the one before
\* left.
RuleBasedAnalysis(ws, ai, now) ==
    IF \E i \in DOMAIN ws : ws[i] = "|" THEN ParseFormattedText(ws)
    ELSE TheOne({ AnalysisAfterDate(ws, ai, now, date_info)
                  : date_info \in { ExtractDate(ws, now) } })

\* The parameters of AIInference.analyze_text (inference.py, line 177).
AnalyzeTextParameters == { "self", "text" }

\* _ai_based_analysis (lines 157-166): None without an inference object;
\* with one, analyze_text is called with the keyword detailed (line 163),
\* which it does not take: the TypeError is caught and None returned.
AiBasedAnalysis(ws, ai) ==
    IF ~ai THEN None
    ELSE IF "detailed" \notin AnalyzeTextParameters THEN None
    ELSE "analysis"

\* _integrate_results (lines 168-238) for the ai_result None, the only one
\* _ai_based_analysis returns: the four fields of the rule-based record
\* and the mean of its confidence dict (line 196), whose lookup raises
\* KeyError for the record of a formatted text.
IntegrateResults(rule, ai_analysis) ==
    IF rule.kind = "formatted" THEN Raised("KeyError")
    ELSE [kind |-> "record",
          title |-> rule.title,
          due_date |-> rule.due_date,
          priority |-> rule.priority,
          category |-> rule.category,
          confidence |-> Fraction(rule.confidence.title + rule.confidence.due_date
                                  + rule.confidence.priority + rule.confidence.category,
                                  4 * 100)]

\* parse_task_info returned None.
ReturnedNone == [kind |-> "none"]

\* Lines 90-95 of parse_task_info, given the preprocessed text.
ParsePreprocessed(cleaned, ai, now) ==
    TheOne({
      IF rule.kind = "raised"
      THEN [cleaned_text |-> cleaned, rule_based_result |-> rule,
            ai_result |-> Pending, result |-> rule]
      ELSE [cleaned_text |-> cleaned, rule_based_result |-> rule,
            ai_result |-> [kind |-> "returned",
                           value |-> AiBasedAnalysis(cleaned.words, ai)],
            result |-> IntegrateResults(rule, AiBasedAnalysis(cleaned.words, ai))]
      : rule \in { RuleBasedAnalysis(cleaned.words, ai, now) } })

\* parse_task_info (lines 72-95) on the text t.
ParseTaskInfoOn(t, ai, now) ==
    TheOne({
      IF ~TitleTruthy(cleaned)
      THEN [cleaned_text |-> cleaned, rule_based_result |-> Pending,
            ai_result |-> Pending, result |-> ReturnedNone]
      ELSE ParsePreprocessed(cleaned, ai, now)
      : cleaned \in { PreprocessText(t) } })

(* ------------------------------------------------------------------ *)
(* The parser as a state machine                                       *)
(* ------------------------------------------------------------------ *)

\* A parser constructed with or without model paths (lines 27-70).
InitParser ==
    /\ ValidatorIdle
    /\ ThreadsIdle
    /\ TaskIdle
    /\ workload = "all"
    /\ EnsembleIdle
    /\ ai_inference \in BOOLEAN
    /\ parse_pc = "idle"
    /\ text = TitleStr(<<>>)
    /\ cleaned_text = TitleNone
    /\ rule_based_result = Pending
    /\ parser_ai_result = Pending
    /\ parse_result = Pending

\* One call of parse_task_info, up to its return or its exception.
ParseTaskInfo ==
    /\ parse_pc = "idle"
    /\ \E t \in ParserTexts :
         \E call \in { ParseTaskInfoOn(t, ai_inference, today) } :
            /\ text' = t
            /\ cleaned_text' = call.cleaned_text
            /\ rule_based_result' = call.rule_based_result
            /\ parser_ai_result' = call.ai_result
            /\ parse_result' = call.result
    /\ parse_pc' = "done"
    /\ UNCHANGED << ai_inference, validatorVars, repeatVars, ensembleVars, threadVars, taskVars >>

\* The caller takes the result; the parser keeps nothing of the call.
ParseReturn ==
    /\ parse_pc = "done"
    /\ parse_pc' = "idle"
    /\ text' = TitleStr(<<>>)
    /\ cleaned_text' = TitleNone
    /\ rule_based_result' = Pending
    /\ parser_ai_result' = Pending
    /\ parse_result' = Pending
    /\ UNCHANGED << ai_inference, validatorVars, repeatVars, ensembleVars, threadVars, taskVars >>

NextParser == ParseTaskInfo \/ ParseReturn

SpecParser == InitParser /\ [][NextParser]_vars

(* ------------------------------------------------------------------ *)
(* Properties of the parser                                            *)
(* ------------------------------------------------------------------ *)

\* parse_task_info has returned or raised on a natural-language text that
\* is not empty after the preprocessing.
ParsedNatural ==
    /\ parse_pc = "done"
    /\ TitleTruthy(cleaned_text)
    /\ \A i \in DOMAIN cleaned_text.words : cleaned_text.words[i] # "|"

\* The categories of which the preprocessed text holds a keyword, and those
\* it names.
KeywordCategories == MatchedCategories(cleaned_text.words)

NamedCategories ==
    { i \in DOMAIN category_keywords :
        NamedIn(category_keywords[i].category, cleaned_text.words) }

\* The number of distinct keywords of category i in the preprocessed text.
Matches(i) ==
    Cardinality({ k \in category_keywords[i].keywords :
                    \E j \in DOMAIN cleaned_text.words : cleaned_text.words[j] = k })

Min(a, b) == IF a < b THEN a ELSE b

\* The preprocessed text holds a keyword of some priority.
HasPriorityKeyword ==
    \E i \in DOMAIN priority_keywords : \E k \in priority_keywords[i].keywords :
        \E j \in DOMAIN cleaned_text.words : cleaned_text.words[j] = k

\* C12 as claimed: parse_task_info returns None exactly when the
\* preprocessed text is empty, and for every other text, formatted or
\* natural, raises nothing and returns a record with title, due_date,
\* priority and category.
C12_AsClaimed ==
    parse_pc = "done" =>
        /\ (parse_result.kind = "none") <=> ~TitleTruthy(cleaned_text)
        /\ TitleTruthy(cleaned_text) =>
              /\ parse_result.kind = "record"
              /\ {"title", "due_date", "priority", "category"} \subseteq DOMAIN parse_result

\* C13 as claimed: for a text with no category keyword and no category
\* name the category extraction does not fail and reports no category, and
\* the rule-based record has the category confidence 0.
C13_AsClaimed ==
    (ParsedNatural /\ KeywordCategories = {} /\ NamedCategories = {}) =>
        /\ rule_based_result.kind = "natural"
        /\ rule_based_result.category = None
        /\ rule_based_result.confidence.category = 0

\* C14 as claimed: every category of which the text holds a keyword is
\* returned, with the confidence min(BASE + matches x INCREMENT, MAX).
C14_AsClaimed ==
    (ParsedNatural /\ NamedCategories = {}) =>
        \A i \in KeywordCategories :
            /\ rule_based_result.kind = "natural"
            /\ rule_based_result.category = category_keywords[i].category
            /\ rule_based_result.confidence.category
                 = Min(BASE + Matches(i) * INCREMENT, MAX)

\* C15 as claimed: with no priority keyword in the text and no due date
\* extracted, the rule-based priority is Low with the confidence BASE.
C15_AsClaimed ==
    (/\ ParsedNatural
     /\ rule_based_result.kind = "natural"
     /\ rule_based_result.due_date = NoDate
     /\ ~HasPriorityKeyword)
    => /\ rule_based_result.priority = PRIORITY_LOW
       /\ rule_based_result.confidence.priority = BASE

\* The row of Task.URGENCY_LEVELS for a number of days until the due date.
UrgencyRow(days) == URGENCY_LEVELS[UrgencyIndex(days)]

\* C16 as claimed: when a due date was extracted, the rule-based priority
\* is the one of the Urgency-Level table for that date unless a keyword
\* signal of higher confidence names another, so a text without priority
\* keyword gets the priority of the table.
C16_AsClaimed ==
    (/\ ParsedNatural
     /\ rule_based_result.kind = "natural"
     /\ rule_based_result.due_date # NoDate
     /\ ~HasPriorityKeyword)
    => rule_based_result.priority
         = UrgencyRow(Strptime(rule_based_result.due_date).ordinal - today).priority

\* C17 as claimed: the four confidences of the rule-based record, and the
\* confidences the estimates of the inference class return, are in [0, 1].
C17_AsClaimed ==
    /\ (parse_pc = "done" /\ rule_based_result # Pending
                          /\ rule_based_result.kind = "natural")
       => \A f \in DOMAIN rule_based_result.confidence :
             /\ rule_based_result.confidence[f] >= 0
             /\ rule_based_result.confidence[f] <= MAX
    /\ \A d \in {0, 3, 8} :
          /\ ~FractionGreater(InferencePriority(cleaned_text, d).confidence, Fraction(1, 1))
          /\ ~FractionGreater(Fraction(0, 1), InferencePriority(cleaned_text, d).confidence)
    /\ ~FractionGreater(InferenceCategory(cleaned_text).confidence, Fraction(1, 1))
    /\ ~FractionGreater(Fraction(0, 1), InferenceCategory(cleaned_text).confidence)
    /\ ~FractionGreater(InferenceDeadlineExpression(cleaned_text).confidence, Fraction(1, 1))
    /\ ~FractionGreater(Fraction(0, 1), InferenceDeadlineExpression(cleaned_text).confidence)

(* ------------------------------------------------------------------ *)
(* Properties of the estimates                                         *)
(* ------------------------------------------------------------------ *)

\* C21 as claimed: estimate_priority and estimate_deadline of the ensemble
\* return the label of the highest similarity, and when that similarity
\* does not exceed THRESHOLD (0.3) the confidence they return is 0.
C21_AsClaimed ==
    /\ (estimate # Pending /\ estimate.op = "ensemble.estimate_priority")
       => /\ estimate.result.priority
               = PriorityNames[BestIndex(estimate.result.scores, {})]
          /\ ~AboveThreshold(estimate.result.scores[BestIndex(estimate.result.scores, {})])
               => estimate.result.confidence.num = 0
    /\ (estimate # Pending /\ estimate.op = "ensemble.estimate_deadline")
       => /\ estimate.result.matched_pattern
               \in {None, DeadlinePatterns[BestIndex(estimate.similarities, {})].pattern}
          /\ ~AboveThreshold(estimate.similarities[BestIndex(estimate.similarities, {})])
               => estimate.result.confidence.num = 0

(* ------------------------------------------------------------------ *)
(* One EnsembleModel used by several threads                           *)
(*                                                                     *)
(* The class takes no lock: two threads in get_similarity, and one in  *)
(* cleanup, interleave between the reads and the writes of             *)
(* self.models. A provider's constructor reads its model from disk, so *)
(* a thread is switched out in the middle of line 43.                  *)
(* ------------------------------------------------------------------ *)

\* The scores a provider returns to the threads, in hundredths.
ThreadScores == {ScoreError, Score(40)}

InitThreads ==
    /\ ValidatorIdle
    /\ TaskIdle
    /\ workload = "all"
    /\ ParserIdle
    /\ weights \in WeightChoices
    /\ models \in SUBSET {"word2vec"}
    /\ model_status = [m \in Providers |-> m \in models]
    /\ loadable \in {Providers, {"word2vec"}}
    /\ load_failed = {}
    /\ retried = {}
    /\ last_call = Pending
    /\ estimate = Pending
    /\ callers = [t \in Callers |-> CallerIdle]
    /\ cleaner = CleanerIdle
    /\ constructed = [m \in Providers |-> IF m \in models THEN 1 ELSE 0]

\* The thread's locals once it is done with the entry of self.weights it
\* is at (line 173): the next entry, or the lines after the loop.
NextEntry(c) ==
    IF c.i = Len(weights) THEN [c EXCEPT !.pc = "return"]
    ELSE [c EXCEPT !.pc = "check", !.i = c.i + 1]

\* Thread t calls get_similarity (lines 170-173).
StartSimilarity(t) ==
    /\ callers[t].pc = "idle"
    /\ callers' = [callers EXCEPT ![t] = [CallerIdle EXCEPT !.pc = "check", !.i = 1]]
    /\ UNCHANGED <<cleaner, constructed, ensembleVars>>
    /\ UNCHANGED <<validatorVars, repeatVars, parserVars, taskVars>>

\* _load_model, line 34: a provider found in self.models is not loaded
\* again, and _load_model returns True.
CheckLoaded(t) ==
    /\ callers[t].pc = "check"
    /\ callers' = [callers EXCEPT ![t].pc =
                      IF weights[callers[t].i].name \in models THEN "score"
                      ELSE "construct"]
    /\ UNCHANGED <<cleaner, constructed, ensembleVars>>
    /\ UNCHANGED <<validatorVars, repeatVars, parserVars, taskVars>>

\* _load_model, line 43, right-hand side: the provider is constructed; a
\* constructor that raises ends _load_model with False (lines 46-48).
ConstructProvider(t) ==
    /\ callers[t].pc = "construct"
    /\ \E m \in {weights[callers[t].i].name} :
        IF m \in loadable
        THEN /\ constructed' = [constructed EXCEPT ![m] = constructed[m] + 1]
             /\ callers' = [callers EXCEPT ![t].pc = "store"]
        ELSE /\ callers' = [callers EXCEPT ![t] = NextEntry(callers[t])]
             /\ UNCHANGED constructed
    /\ UNCHANGED <<cleaner, ensembleVars>>
    /\ UNCHANGED <<validatorVars, repeatVars, parserVars, taskVars>>

\* _load_model, lines 43-45: the provider constructed is stored in
\* self.models, its status set, and True returned.
StoreProvider(t) ==
    /\ callers[t].pc = "store"
    /\ models' = models \cup {weights[callers[t].i].name}
    /\ model_status' = [model_status EXCEPT ![weights[callers[t].i].name] = TRUE]
    /\ callers' = [callers EXCEPT ![t].pc = "score"]
    /\ UNCHANGED <<cleaner, constructed>>
    /\ UNCHANGED <<weights, loadable, load_failed, retried, last_call, estimate>>
    /\ UNCHANGED <<validatorVars, repeatVars, parserVars, taskVars>>

\* get_similarity, lines 174-179: self.models[model_name] is looked up (a
\* KeyError when cleanup has emptied the dict since line 34) and asked for
\* the similarity; any exception is logged and the provider left out.
ScoreProvider(t) ==
    /\ callers[t].pc = "score"
    /\ \E o \in ThreadScores, c \in {callers[t]} :
        callers' = [callers EXCEPT ![t] =
            IF weights[c.i].name \in models /\ o.ok
            THEN NextEntry([c EXCEPT !.sum = c.sum + o.score * weights[c.i].weight,
                                     !.total_weight = c.total_weight + weights[c.i].weight,
                                     !.scored = c.scored \cup {weights[c.i].name}])
            ELSE NextEntry(c)]
    /\ UNCHANGED <<cleaner, constructed, ensembleVars>>
    /\ UNCHANGED <<validatorVars, repeatVars, parserVars, taskVars>>

\* get_similarity, lines 181-188: 0.5 when no provider scored, else the
\* weighted mean.
ReturnSimilarity(t) ==
    /\ callers[t].pc = "return"
    /\ callers' = [callers EXCEPT ![t].pc = "done",
                                  ![t].result =
                                      IF callers[t].total_weight = 0
                                      THEN FALLBACK_SIMILARITY
                                      ELSE Fraction(callers[t].sum,
                                                    100 * callers[t].total_weight)]
    /\ UNCHANGED <<cleaner, constructed, ensembleVars>>
    /\ UNCHANGED <<validatorVars, repeatVars, parserVars, taskVars>>

\* cleanup, line 297: the iterator over self.models.values() is made; it
\* remembers the size of the dict.
CleanupBegin ==
    /\ cleaner.pc = "idle"
    /\ cleaner' = [pc |-> "iterate", used |-> Cardinality(models), left |-> models]
    /\ UNCHANGED <<callers, constructed, ensembleVars>>
    /\ UNCHANGED <<validatorVars, repeatVars, parserVars, taskVars>>

\* cleanup, lines 297-298: the iterator is asked for its next value. A dict
\* whose size is no longer the one remembered makes it raise RuntimeError
\* (dictionary changed size during iteration), which cleanup does not
\* catch; otherwise the local name model is bound and deleted.
CleanupIterate ==
    /\ cleaner.pc = "iterate"
    /\ IF Cardinality(models) # cleaner.used
       THEN cleaner' = [cleaner EXCEPT !.pc = "raised"]
       ELSE IF cleaner.left = {}
            THEN cleaner' = [cleaner EXCEPT !.pc = "clear"]
            ELSE \E m \in cleaner.left :
                    cleaner' = [cleaner EXCEPT !.left = cleaner.left \ {m}]
    /\ UNCHANGED <<callers, constructed, ensembleVars>>
    /\ UNCHANGED <<validatorVars, repeatVars, parserVars, taskVars>>

\* cleanup, line 299: self.models.clear().
CleanupClear ==
    /\ cleaner.pc = "clear"
    /\ models' = {}
    /\ cleaner' = [cleaner EXCEPT !.pc = "done"]
    /\ UNCHANGED <<callers, constructed>>
    /\ UNCHANGED <<weights, model_status, loadable, load_failed, retried, last_call, estimate>>
    /\ UNCHANGED <<validatorVars, repeatVars, parserVars, taskVars>>

NextThreads ==
    \/ \E t \in Callers : StartSimilarity(t)
    \/ \E t \in Callers : CheckLoaded(t)
    \/ \E t \in Callers : ConstructProvider(t)
    \/ \E t \in Callers : StoreProvider(t)
    \/ \E t \in Callers : ScoreProvider(t)
    \/ \E t \in Callers : ReturnSimilarity(t)
    \/ CleanupBegin
    \/ CleanupIterate
    \/ CleanupClear

\* Two threads each make one get_similarity call and a third calls cleanup
\* once, in any interleaving.
SpecThreads == InitThreads /\ [][NextThreads]_vars

\* C22 as claimed: while no cleanup has run, no provider is constructed
\* more than once, whatever the interleaving of the threads that load it.
C22_AsClaimed ==
    cleaner.pc = "idle" => \A m \in Providers : constructed[m] <= 1

\* C30 as claimed: with cleanup running beside get_similarity calls,
\* neither raises: cleanup does not end in an exception, and a similarity
\* call that has returned gave the weighted mean of the providers that
\* scored for it, or 0.5 when none did.
C30_AsClaimed ==
    /\ cleaner.pc # "raised"
    /\ \A t \in Callers :
          /\ callers[t].pc # "raised"
          /\ callers[t].pc = "done" =>
                IF callers[t].scored = {}
                THEN SameFraction(callers[t].result, Fraction(1, 2))
                ELSE callers[t].result.den > 0

(* ------------------------------------------------------------------ *)
(* Task (src/models/task.py): the constructor and the setters          *)
(* ------------------------------------------------------------------ *)

\* Task.STATUS_NOT_STARTED, STATUS_IN_PROGRESS, STATUS_COMPLETED (lines
\* 26-28).
STATUS_NOT_STARTED == "NotStarted"
STATUS_IN_PROGRESS == "InProgress"
STATUS_COMPLETED == "Completed"

\* The empty string, which Python takes as false.
EmptyString == ""

\* The values given as due_date: None, the empty string, a date, a date
\* without leading zeros, a day that does not exist, plain text, and a
\* datetime.date object (shape "object": not a str).
TaskDueDates ==
    { NoDate, DateStr("empty", 0, 0, 0), DateStr("padded", 2026, 11, 30),
      DateStr("unpadded", 2026, 12, 5), DateStr("padded", 2026, 2, 30),
      DateStr("text", 0, 0, 0), DateStr("object", 2026, 11, 30) }

\* The values given as priority: None, "", the three priorities and a
\* word outside the vocabulary.
TaskPriorities ==
    { None, EmptyString, PRIORITY_HIGH, PRIORITY_MEDIUM, PRIORITY_LOW, "Highest" }

\* The values given as categories: None, one str, a list, a number.
TaskCategories ==
    { [tag |-> "none", items |-> <<>>],
      [tag |-> "str", items |-> <<"Math">>],
      [tag |-> "str", items |-> <<"Cooking">>],
      [tag |-> "list", items |-> <<>>],
      [tag |-> "list", items |-> <<"Math", "Statistics">>],
      [tag |-> "list", items |-> <<"Math", "Cooking">>],
      [tag |-> "int", items |-> <<>>] }

\* The values given as status.
TaskStatuses ==
    { STATUS_NOT_STARTED, STATUS_IN_PROGRESS, STATUS_COMPLETED, "Done", None }

\* What a setter does: the exception it raises (None when it returns) and
\* the Task it leaves.
SetterDone(raised, t) == [raised |-> raised, task |-> t]

\* The due_date setter (lines 153-173).
SetDueDate(t, value) ==
    IF value.shape \notin {"none", "empty"}
    THEN IF value.shape # "object" /\ ~Strptime(value).ok
         THEN SetterDone("ValueError", t)
         ELSE SetterDone(None, [t EXCEPT !.due_date = value])
    ELSE SetterDone(None, [t EXCEPT !.due_date = NoDate])

\* The priority setter (lines 185-199).
SetPriority(t, value) ==
    IF /\ value \notin {None, EmptyString}
       /\ value \notin {PRIORITY_HIGH, PRIORITY_MEDIUM, PRIORITY_LOW}
    THEN SetterDone("ValueError", t)
    ELSE SetterDone(None, [t EXCEPT !.priority = value])

\* The categories setter (lines 206-233): None empties the list, a str
\* becomes a list of one, a number cannot be iterated (TypeError at line
\* 226), a list is kept as it is when all its items are valid.
SetCategories(t, value) ==
    IF value.tag = "none" THEN SetterDone(None, [t EXCEPT !.categories = <<>>])
    ELSE IF value.tag = "int" THEN SetterDone("TypeError", t)
    ELSE IF \E i \in DOMAIN value.items : value.items[i] \notin VALID_CATEGORIES
         THEN SetterDone("ValueError", t)
         ELSE SetterDone(None, [t EXCEPT !.categories = value.items])

\* The status setter (lines 239-244): updated_at is set again.
SetStatus(t, value) ==
    IF value \notin {STATUS_NOT_STARTED, STATUS_IN_PROGRESS, STATUS_COMPLETED}
    THEN SetterDone("ValueError", t)
    ELSE SetterDone(None, [t EXCEPT !.status = value, !.refreshed = TRUE])

\* The fields of a Task as __init__ sets them before it calls the setters
\* (lines 130-136): refreshed tells that updated_at is no longer created_at.
BlankTask ==
    [kind |-> "task", due_date |-> NoDate, priority |-> None, categories |-> <<>>,
     status |-> None, refreshed |-> FALSE]

\* categories or [] (line 135).
CategoriesOrEmpty(value) ==
    IF value.tag \in {"none", "int"} \/ value.items = <<>>
    THEN [tag |-> "list", items |-> <<>>]
    ELSE value

\* Task.__init__ (lines 118-140): the four setters in turn, the first
\* exception ending the construction; updated_at is created_at at the end.
NewTask(due_date, priority, categories, status) ==
    TheOne({ IF a.raised # None THEN a
             ELSE TheOne({ IF b.raised # None THEN b
                  ELSE TheOne({ IF c.raised # None THEN c
                       ELSE TheOne({ IF d.raised # None THEN d
                                     ELSE SetterDone(None, [d.task EXCEPT !.refreshed = FALSE])
                            : d \in {SetStatus(c.task, status)} })
                       : c \in {SetCategories(b.task, CategoriesOrEmpty(categories))} })
                  : b \in {SetPriority(a.task, priority)} })
             : a \in {SetDueDate(BlankTask, due_date)} })

InitTask ==
    /\ ValidatorIdle
    /\ ThreadsIdle
    /\ workload = "all"
    /\ ParserIdle
    /\ EnsembleIdle
    /\ task = NoTask
    /\ setter_call = Pending

\* A caller constructs a Task; a constructor that raises leaves none.
Construct ==
    /\ task = NoTask
    /\ \E due_date \in TaskDueDates, priority \in TaskPriorities,
          categories \in TaskCategories, status \in TaskStatuses :
        \E r \in {NewTask(due_date, priority, categories, status)} :
            /\ r.raised = None
            /\ task' = r.task
    /\ UNCHANGED setter_call
    /\ UNCHANGED <<validatorVars, repeatVars, parserVars, ensembleVars, threadVars>>

\* The setter called, whether its argument was a value of the field's
\* vocabulary (valid), what it raised, and the Task before the call.
SetterCalled(setter, valid, r) ==
    /\ task' = r.task
    /\ setter_call' = [kind |-> "setter", setter |-> setter, valid |-> valid,
                       raised |-> r.raised, before |-> task]

\* task.due_date = value
AssignDueDate ==
    /\ task # NoTask
    /\ \E value \in TaskDueDates :
        SetterCalled("due_date", value = NoDate \/ Strptime(value).ok,
                     SetDueDate(task, value))
    /\ UNCHANGED <<validatorVars, repeatVars, parserVars, ensembleVars, threadVars>>

\* task.priority = value
AssignPriority ==
    /\ task # NoTask
    /\ \E value \in TaskPriorities :
        SetterCalled("priority",
                     value \in {None, PRIORITY_HIGH, PRIORITY_MEDIUM, PRIORITY_LOW},
                     SetPriority(task, value))
    /\ UNCHANGED <<validatorVars, repeatVars, parserVars, ensembleVars, threadVars>>

\* task.categories = value
AssignCategories ==
    /\ task # NoTask
    /\ \E value \in TaskCategories :
        SetterCalled("categories",
                     /\ value.tag # "int"
                     /\ \A i \in DOMAIN value.items : value.items[i] \in VALID_CATEGORIES,
                     SetCategories(task, value))
    /\ UNCHANGED <<validatorVars, repeatVars, parserVars, ensembleVars, threadVars>>

\* task.status = value
AssignStatus ==
    /\ task # NoTask
    /\ \E value \in TaskStatuses :
        SetterCalled("status",
                     value \in {STATUS_NOT_STARTED, STATUS_IN_PROGRESS, STATUS_COMPLETED},
                     SetStatus(task, value))
    /\ UNCHANGED <<validatorVars, repeatVars, parserVars, ensembleVars, threadVars>>

NextTask ==
    \/ Construct
    \/ AssignDueDate
    \/ AssignPriority
    \/ AssignCategories
    \/ AssignStatus

\* One Task, constructed and then assigned to through its setters.
SpecTask == InitTask /\ [][NextTask]_vars

\* C23 as claimed: a Task's priority is None or one of the three
\* priorities, its categories are all valid, its status is one of the
\* three, its due_date is None or parses as a day of the calendar; and a
\* setter given a value outside the field's vocabulary raises ValueError
\* and leaves the Task as it was.
C23_AsClaimed ==
    /\ task # NoTask =>
          /\ task.priority \in {None, PRIORITY_HIGH, PRIORITY_MEDIUM, PRIORITY_LOW}
          /\ \A i \in DOMAIN task.categories : task.categories[i] \in VALID_CATEGORIES
          /\ task.status \in {STATUS_NOT_STARTED, STATUS_IN_PROGRESS, STATUS_COMPLETED}
          /\ task.due_date = NoDate \/ Strptime(task.due_date).ok
    /\ (setter_call # Pending /\ ~setter_call.valid) =>
          /\ setter_call.raised = "ValueError"
          /\ task = setter_call.before

(* ------------------------------------------------------------------ *)
(* The parser with an inference class that always fails                *)
(* ------------------------------------------------------------------ *)

\* What two calls of parse_task_info gave is the same: both returned None,
\* both raised, or both returned records with the same title, due_date,
\* priority and category.
SameAnswer(a, b) ==
    /\ a.kind = b.kind
    /\ a.kind = "record" =>
          /\ a.title = b.title
          /\ a.due_date = b.due_date
          /\ a.priority = b.priority
          /\ a.category = b.category

\* The parser with an inference class answers as the parser without one.
AnswersAsRuleBasedOnly ==
    (parse_pc = "done" /\ ai_inference)
        => \E alone \in {ParseTaskInfoOn(text, FALSE, today).result} :
              SameAnswer(parse_result, alone)

\* C24 as claimed: a parser constructed with model paths, whose inference
\* calls all fail, raises nothing from parse_task_info and returns the
\* title, due_date, priority and category that the parser constructed
\* without model paths returns for the same text.
C24_AsClaimed ==
    /\ (parse_pc = "done" /\ ai_inference) => parse_result.kind # "raised"
    /\ AnswersAsRuleBasedOnly

(* ------------------------------------------------------------------ *)
(* Properties of the warnings of validate_results                      *)
(* ------------------------------------------------------------------ *)

\* The list of warnings returned holds the warning w.
Warned(w) == \E i \in DOMAIN validated.warnings : validated.warnings[i] = w

\* C25: the warnings validate_results returns hold the notice of a missing
\* category exactly when the category returned is absent, and the notice
\* of a missing due date exactly when the due date returned is absent.
C25_NoticesOfMissingFields ==
    pc = "done" =>
        /\ Warned(NoCategoryWarning) <=> ~Truthy(validated.category)
        /\ Warned(NoDueDateWarning) <=> ~DateTruthy(validated.due_date)

\* A result with a due date and no category: only the notice of the
\* missing category is among its warnings.
C25_Witness ==
    /\ pc = "done"
    /\ DateTruthy(validated.due_date)
    /\ ~Truthy(validated.category)
    /\ Warned(NoCategoryWarning)
    /\ ~Warned(NoDueDateWarning)

\* C29 as claimed: the priority validate_results returns is the one of
\* the Urgency-Level table for the due date returned, so none of the
\* warnings returned is the mismatch warning of the consistency check.
C29_AsClaimed ==
    pc = "done" =>
        \A i \in DOMAIN validated.warnings : validated.warnings[i].kind # "mismatch"

(* ------------------------------------------------------------------ *)
(* TextParser._extract_date on the days of the calendar                *)
(* ------------------------------------------------------------------ *)

\* The days _extract_date is called on: the seven days from 2026-11-25 (a
\* Wednesday; the Sunday is 2026-11-29 and the month ends in the week), the
\* last day of the year, the last days of January, the last day of a
\* February, of a March, and of the January of a leap year.
DateDays ==
    { Today0 + k : k \in 0..6 } \cup
    { Ordinal(2026, 12, 31), Ordinal(2027, 1, 29), Ordinal(2027, 1, 30),
      Ordinal(2027, 1, 31), Ordinal(2027, 2, 28), Ordinal(2027, 3, 31),
      Ordinal(2028, 1, 31) }

\* The texts given to _extract_date: one date expression, alone, before a
\* deadline word ("made" = まで) or after one; two expressions; no date.
DateTexts ==
    { << e.token >> : e \in DateExpressions } \cup
    { << e.token, "made" >> : e \in DateExpressions } \cup
    { << "made", "repooto", e.token >> : e \in DateExpressions } \cup
    { << "raigetsumatsu", "konshuu_no_getsuyoubi" >>,
      << "raigetsumatsu", "made", "raishuu_no_suiyoubi" >>,
      << "kongetsumatsu", "2026-13-45" >>,
      << "repooto", "made" >> }

InitDates ==
    /\ pc = "idle"
    /\ rule_based = NoRule
    /\ ai_result = NoAi
    /\ validated = EmptyDict
    /\ deadline_warnings = <<>>
    /\ days_until = NoDays
    /\ today \in DateDays
    /\ called_on = today
    /\ remembered = NothingRemembered
    /\ workload = "all"
    /\ ParserIdle
    /\ EnsembleIdle
    /\ ThreadsIdle
    /\ TaskIdle

\* A caller calls _extract_date(text).
ExtractDateCall ==
    /\ parse_pc = "idle"
    /\ \E ws \in DateTexts :
        /\ text' = TitleStr(ws)
        /\ parse_result' = ExtractDate(ws, today)
    /\ parse_pc' = "extracted"
    /\ UNCHANGED <<ai_inference, cleaned_text, rule_based_result, parser_ai_result>>
    /\ UNCHANGED <<validatorVars, repeatVars, ensembleVars, threadVars, taskVars>>

\* The caller takes the dict, or None.
ExtractDateReturn ==
    /\ parse_pc = "extracted"
    /\ parse_pc' = "idle"
    /\ text' = TitleStr(<<>>)
    /\ parse_result' = Pending
    /\ UNCHANGED <<ai_inference, cleaned_text, rule_based_result, parser_ai_result>>
    /\ UNCHANGED <<validatorVars, repeatVars, ensembleVars, threadVars, taskVars>>

NextDates == ExtractDateCall \/ ExtractDateReturn

\* _extract_date called on texts with date expressions, on several days.
SpecDates == InitDates /\ [][NextDates]_vars

\* The text of the call is the date expression token alone, or with a
\* deadline word.
TextHolds(token) ==
    /\ \E i \in DOMAIN text.words : text.words[i] = token
    /\ \A i \in DOMAIN text.words : text.words[i] \in {token, "made", "repooto"}

\* C26 as claimed: a date _extract_date returns is a day of the calendar
\* written YYYY-MM-DD, also for numbers out of range.
C26_AsClaimed ==
    (parse_pc = "extracted" /\ parse_result.found)
        => /\ parse_result.date.shape = "padded"
           /\ Strptime(parse_result.date).ok

\* The relative expressions of the texts.
RelativeTokens ==
    { e.token : e \in { x \in DateExpressions : x.pattern \notin {"ymd", "md"} } }

\* C27 as claimed: on every weekday a relative date expression resolves to
\* a day that is not before today; konshuumatsu (this weekend) is the
\* Saturday of the week only while that Saturday is not past.
C27_AsClaimed ==
    \A token \in RelativeTokens :
        (parse_pc = "extracted" /\ TextHolds(token) /\ parse_result.found)
            => /\ Strptime(parse_result.date).ok
               /\ Strptime(parse_result.date).ordinal >= today

\* The last day of the month of a day, and of the month after it.
EndOfMonth(y, m) == DateStr("padded", y, m, DaysInMonth(y, m))
EndOfMonthAfter(y, m) ==
    IF m = 12 THEN EndOfMonth(y + 1, 1) ELSE EndOfMonth(y, m + 1)

\* C28 as claimed: on every day kongetsumatsu (end of this month) gives
\* the last day of the month and raigetsumatsu (end of next month) the last
\* day of the month after, and a date is produced.
C28_AsClaimed ==
    /\ (parse_pc = "extracted" /\ TextHolds("kongetsumatsu"))
          => /\ parse_result.found
             /\ parse_result.date = EndOfMonth(DateOf(today).y, DateOf(today).m)
    /\ (parse_pc = "extracted" /\ TextHolds("raigetsumatsu"))
          => /\ parse_result.found
             /\ parse_result.date = EndOfMonthAfter(DateOf(today).y, DateOf(today).m)
====
